---- MODULE Spec2Model ----
(***************************************************************************)
(* Model of versionLT, the dotted version comparison of                    *)
(* scripts/fix_version.sh (kept in src/scripts/test_version.sh), and of a  *)
(* caller that runs it on a pair of version strings in both orders.        *)
(*                                                                         *)
(* A string is a sequence of one-character strings; a bash array is a      *)
(* sequence of such strings, bash index k being element k + 1.             *)
(***************************************************************************)
EXTENDS Integers, Sequences, FiniteSets, TLC

\* Longest version string enumerated over Chars (the named vectors are
\* added to these whatever their length).
MaxLen == 3

\* Characters of the enumerated strings.
Chars == {"0", "1", "."}

Digits == {"0", "1", "2", "3", "4", "5", "6", "7", "8", "9"}

DigitVal ==
  ("0" :> 0) @@ ("1" :> 1) @@ ("2" :> 2) @@ ("3" :> 3) @@ ("4" :> 4) @@
  ("5" :> 5) @@ ("6" :> 6) @@ ("7" :> 7) @@ ("8" :> 8) @@ ("9" :> 9)

\* The version strings named by the test script and by the documentation,
\* with some malformed ones.
Vectors ==
  { <<"2", ".", "1", "9", "0">>,           <<"2", ".", "2", "0", "0">>,
    <<"2", ".", "1", "0", "0", ".", "1">>, <<"2", ".", "1", "0", "0", ".", "2">>,
    <<"2", ".", "1", "0", "0">>,           <<"2", ".", "1", "0", "0", ".", "0">>,
    <<"2", ".", "9">>,                     <<"2", ".", "1", "0">>,
    <<"2", ".", "0", "1", "0">>,           <<"2", ".", "0", "8">>,
    <<"1", ".", "9", ".", "9">>,           <<"2", ".", "0", ".", "0">>,
    <<"2", ".", "9", ".", "1">>,           <<"2", ".", "1">>,
    <<"2", ".", "a">>,                     <<"2", ".", "a", ".", "1">>,
    <<"2", ".", "1", ".", "2">>,           <<"a">>,
    <<"2", ".", ".", "1">>,                <<"2", ".", "0", ".", "1">> }

Strings == UNION {[1..n -> Chars] : n \in 0..MaxLen}

\* Width of the integers of shell arithmetic in the model. Bash computes in
\* intmax_t (64 bits); the model keeps the two's complement behaviour at a
\* width whose values the model checker can hold.
IntBits == 16

\* The largest integer of shell arithmetic.
MaxInt == 2^(IntBits - 1) - 1

DigitChar == <<"0", "1", "2", "3", "4", "5", "6", "7", "8", "9">>

\* The decimal digits of a natural number.
RECURSIVE ToDigits(_)
ToDigits(n) ==
  IF n < 10 THEN <<DigitChar[n + 1]>>
  ELSE Append(ToDigits(n \div 10), DigitChar[(n % 10) + 1])

\* Versions with fields at the top of the integer range.
BigVersions ==
  { ToDigits(MaxInt), ToDigits(MaxInt - 1),
    <<"1", ".">> \o ToDigits(MaxInt), ToDigits(MaxInt) \o <<".", "0">> }

Inputs == Strings \cup Vectors \cup BigVersions

\* Longest string enumerated over BadChars, for the runs that follow calls
\* with malformed fields to their end.
MaxBadLen == 2

BadChars == {"1", "a", "."}

BadInputs == UNION {[1..n -> BadChars] : n \in 0..MaxBadLen} \cup Vectors

\* The bash builds the script can run under: up to bash 5.0 the constant
\* `10#' with no digit evaluates to 0, from bash 5.1 on it is an
\* "invalid integer constant" error.
Shells == {"legacy", "strict"}

VARIABLES
  shell,   \* the bash build
  env,     \* the caller's variables (global scope)
  env0,    \* env as it was before the first call
  arg1,    \* $1 of the running call
  arg2,    \* $2 of the running call
  frame,   \* the local variables of the running call
  pc,      \* position: "caller", "entry", "decl", "pad", "cmp", "aborted"
  status,  \* $?
  log,     \* the statuses returned by the calls made so far
  nsplit,  \* word splittings done by the running (or last) call
  neval,   \* arithmetic comparisons evaluated by the running (or last) call
  npad,    \* iterations of the padding loop of the running (or last) call
  ncmp,    \* iterations of the comparison loop of the running (or last) call
  ndiag,   \* diagnostics the running (or last) call wrote to stderr
  \* three versions compared pairwise
  tri,     \* the versions a, b, c
  tres,    \* the statuses of the comparisons made so far
  \* calls of versionLT running interleaved
  cin,     \* the arguments of every call and the variables they started with
  procs,   \* the running calls
  cenv,    \* the global variables the calls share
  \* the test script
  texp,    \* the expected status of each test vector
  tpc,     \* "start", "run", "passed", "failed"
  tact,    \* the statuses versionLT returned so far ($actual)
  tout,    \* the lines printed so far
  texit,   \* the exit status of the script once it has ended
  \* the paste store and its cleanup
  pmode,   \* NODE_ENV
  pnow,    \* the clock
  pstore,  \* the pastes in the database
  pnext,   \* the number of pastes created so far
  plast,   \* the outcome of the last cleanup
  presp,   \* the response to the last request for a paste
  \* the encryption of paste ids
  cx,      \* the input and what encryptObjectId and decryptObjectId made of it
  \* the repository share server
  sv,      \* the clock, the shares map and the last response
  \* the haiku generator
  hk       \* the data files, the call stack of generateLine and the lines

\* The variables of versionLT and its caller.
callvars == <<env, env0, arg1, arg2, frame, pc, status, log,
              nsplit, neval, npad, ncmp, ndiag>>

trivars == <<tri, tres>>

concvars == <<cin, procs, cenv>>

testvars == <<texp, tpc, tact, tout, texit>>

pastevars == <<pmode, pnow, pstore, pnext, plast, presp>>

\* The variables the caller of versionLT leaves alone.
others == <<trivars, concvars, testvars, pastevars, cx, sv, hk>>

vars == <<shell, callvars, trivars, concvars, testvars, pastevars, cx, sv, hk>>

----------------------------------------------------------------------------
\* Shell semantics used by versionLT

\* ASCII codes of the characters used, for the order of plain strings.
CharCode ==
  ("." :> 46) @@ ("0" :> 48) @@ ("1" :> 49) @@ ("2" :> 50) @@ ("3" :> 51) @@
  ("4" :> 52) @@ ("5" :> 53) @@ ("6" :> 54) @@ ("7" :> 55) @@ ("8" :> 56) @@
  ("9" :> 57) @@ ("a" :> 97) @@ ("b" :> 98) @@ ("c" :> 99) @@ ("d" :> 100) @@
  ("e" :> 101) @@ ("f" :> 102)

\* x sorts before y as a plain string, as [[ x < y ]] has it in the C locale.
StrLess(x, y) ==
  \E k \in 1..(Len(x) + 1) :
    /\ \A j \in 1..(k - 1) : j <= Len(y) /\ x[j] = y[j]
    /\ k <= Len(y)
    /\ (k <= Len(x) => CharCode[x[k]] < CharCode[y[k]])

\* Variant of Split: the expansion is not split at all (IFS left alone).
SplitWhole(s, ifs) == IF s = <<>> THEN <<>> ELSE <<s>>

\* Word splitting of an unquoted expansion on the (non-whitespace)
\* characters of IFS: every delimiter ends a field, a delimiter at the very
\* end opens no further field, and a null expansion yields no word.
RECURSIVE SplitFrom(_, _, _)
SplitFrom(s, cur, ifs) ==
  IF s = <<>> THEN (IF cur = <<>> THEN <<>> ELSE <<cur>>)
  ELSE IF \E k \in 1..Len(ifs) : ifs[k] = Head(s)
       THEN <<cur>> \o SplitFrom(Tail(s), <<>>, ifs)
       ELSE SplitFrom(Tail(s), Append(cur, Head(s)), ifs)

\* Variant of Split: a null expansion yields one empty word.
SplitEmptyField(s, ifs) ==
  IF s = <<>> THEN << <<>> >> ELSE SplitFrom(s, <<>>, ifs)

Split(s, ifs) == SplitFrom(s, <<>>, ifs)

\* Variant of ArrayGet: the array is read from its last element backwards.
ArrayGetBackwards(arr, k) == IF k < Len(arr) THEN arr[Len(arr) - k] ELSE <<>>

\* ${arr[k]}: the empty string when the element is unset.
ArrayGet(arr, k) == IF k < Len(arr) THEN arr[k + 1] ELSE <<>>

\* Variant of ArraySet: a missing element is added twice.
ArraySetTwice(arr, k, val) ==
  IF k < Len(arr) THEN [arr EXCEPT ![k + 1] = val]
  ELSE Append(Append(arr, val), val)

\* Variant of ArraySet: a missing element is not added.
ArraySetNoGrow(arr, k, val) ==
  IF k < Len(arr) THEN [arr EXCEPT ![k + 1] = val] ELSE arr

\* Variant of ArraySet: the element is set to 1 whatever the value.
ArraySetOne(arr, k, val) ==
  IF k < Len(arr) THEN [arr EXCEPT ![k + 1] = <<"1">>]
  ELSE Append(arr, <<"1">>)

\* Variant of ArraySet: a missing element is added in front (left padding).
ArraySetFront(arr, k, val) ==
  IF k < Len(arr) THEN [arr EXCEPT ![k + 1] = val] ELSE <<val>> \o arr

\* arr[k]=val; versionLT only assigns at k <= ${#arr[@]}.
ArraySet(arr, k, val) ==
  IF k < Len(arr) THEN [arr EXCEPT ![k + 1] = val] ELSE Append(arr, val)

\* Variant of Radix: constants written without `10#', where a leading 0
\* makes the constant octal.
RadixOctal(f) == IF Len(f) > 1 /\ f[1] = "0" THEN 8 ELSE 10

\* Radix of the constants `10#<field>' of lines 21 and 23.
Radix(f) == 10

\* Variant of Wrap: an integer type one bit narrower.
WrapNarrow(n) == ((n + 2^(IntBits - 2)) % 2^(IntBits - 1)) - 2^(IntBits - 2)

\* Two's complement wrap-around of a result that leaves the integer range.
Wrap(n) == ((n + 2^(IntBits - 1)) % 2^IntBits) - 2^(IntBits - 1)

\* The value of a digit string in radix r, accumulated digit by digit as
\* val = val * r + digit with no overflow check.
RECURSIVE BaseN(_, _)
BaseN(f, r) ==
  IF f = <<>> THEN 0
  ELSE Wrap(BaseN(SubSeq(f, 1, Len(f) - 1), r) * r + DigitVal[f[Len(f)]])

\* The arithmetic constant 10#<f>: an error unless f is made of digits; with
\* no digit at all, 0 or an error depending on the build.
Const(f, sh) ==
  IF f = <<>> THEN [ok |-> sh = "legacy", val |-> 0]
  ELSE IF \A k \in 1..Len(f) : f[k] \in Digits /\ DigitVal[f[k]] < Radix(f)
       THEN [ok |-> TRUE, val |-> BaseN(f, Radix(f))]
       ELSE [ok |-> FALSE, val |-> 0]

\* Variant of ArithLT: the fields are compared as plain strings.
ArithLTLex(x, y, sh) == StrLess(x, y)

\* Variant of ArithLT: <= in place of <.
ArithLTOrEqual(x, y, sh) ==
  Const(x, sh).ok /\ Const(y, sh).ok /\ Const(x, sh).val <= Const(y, sh).val

\* Variant of ArithGT: the elif branch of line 23 is never taken.
ArithGTNever(x, y, sh) == FALSE

\* (( 10#x < 10#y )): true when both constants evaluate and compare so; an
\* evaluation error prints a message and makes the command false.
ArithLT(x, y, sh) ==
  Const(x, sh).ok /\ Const(y, sh).ok /\ Const(x, sh).val < Const(y, sh).val

\* Variant of ArithGT: the fields are compared as plain strings.
ArithGTLex(x, y, sh) == StrLess(y, x)

\* (( 10#x > 10#y )), in the same way.
ArithGT(x, y, sh) ==
  Const(x, sh).ok /\ Const(y, sh).ok /\ Const(x, sh).val > Const(y, sh).val

\* The evaluation of a comparison of 10#x with 10#y fails.
ArithErr(x, y, sh) == ~Const(x, sh).ok \/ ~Const(y, sh).ok

\* Variant of ArithErrorAborts: the comparison is written as an expansion.
ArithErrorAbortsExpansion == TRUE

\* Whether a failed evaluation unwinds to the top level of the shell. It
\* does not inside the command (( )) of lines 21 and 23, which then only
\* fails; it does inside an expansion $(( )).
ArithErrorAborts == FALSE

----------------------------------------------------------------------------
\* Variable scopes

\* Variant of LocalNames: ver1 and ver2 are assigned without local.
LocalNamesNoArrays == {"IFS", "i"}

\* Variant of LocalNames: IFS=. without `local'.
LocalNamesNoIFS == {"i", "ver1", "ver2"}

\* The names versionLT declares with `local' (lines 8 and 9).
LocalNames == {"IFS", "i", "ver1", "ver2"}

NoFrame ==
  [decl |-> {}, IFS |-> <<>>, i |-> 0, ver1 |-> <<>>, ver2 |-> <<>>]

\* name=val: the innermost scope that holds the name is written.
Assign(st, name, val) ==
  IF name \in st.frame.decl
  THEN [st EXCEPT !.frame = [@ EXCEPT ![name] = val]]
  ELSE [st EXCEPT !.env = [@ EXCEPT ![name] = val]]

\* The name=val of lines 8 and 9: a new local when the name is declared
\* local, a plain assignment otherwise.
Declare(st, name, val) ==
  IF name \in LocalNames
  THEN [st EXCEPT !.frame = [@ EXCEPT !.decl = @ \cup {name}, ![name] = val]]
  ELSE Assign(st, name, val)

\* Variant of Lookup: $IFS is read from the caller, as without line 8.
LookupCallerIFS(st, name) ==
  IF name \in st.frame.decl /\ name # "IFS"
  THEN st.frame[name]
  ELSE st.env[name]

\* $name: the innermost scope that holds the name is read.
Lookup(st, name) ==
  IF name \in st.frame.decl THEN st.frame[name] ELSE st.env[name]

\* What the caller's variables hold when it calls versionLT: a shell with
\* the default IFS and nothing set, or one that uses the same names itself.
CallerVars ==
  { [IFS |-> <<" ", "\t", "\n">>, i |-> 0, ver1 |-> <<>>, ver2 |-> <<>>],
    [IFS |-> <<":">>, i |-> 7, ver1 |-> << <<"9">> >>,
     ver2 |-> << <<"8">>, <<"7">> >>] }

----------------------------------------------------------------------------
\* The caller and versionLT

\* The parts of the state a specification does not use stay as they are here.
IdleCall ==
  /\ env = [IFS |-> <<>>, i |-> 0, ver1 |-> <<>>, ver2 |-> <<>>,
            v1 |-> <<>>, v2 |-> <<>>]
  /\ env0 = env
  /\ arg1 = <<>>
  /\ arg2 = <<>>
  /\ frame = NoFrame
  /\ pc = "caller"
  /\ status = 0
  /\ log = <<>>
  /\ nsplit = 0
  /\ neval = 0
  /\ npad = 0
  /\ ncmp = 0
  /\ ndiag = 0

IdleTri == tri = <<>> /\ tres = <<>>

IdleConc == cin = <<>> /\ procs = <<>> /\ cenv = <<>>

IdleTest ==
  texp = <<>> /\ tpc = "start" /\ tact = <<>> /\ tout = <<>> /\ texit = 0

IdlePaste ==
  /\ pmode = "" /\ pnow = 0 /\ pstore = <<>> /\ pnext = 0 /\ plast = ""
  /\ presp = <<>>

IdleCrypt == cx = <<>>

IdleShare == sv = <<>>

IdleHaiku == hk = <<>>

\* The parts that belong to the other programs of the repository.
IdleRest == IdleCrypt /\ IdleShare /\ IdleHaiku

InitFrom(S) ==
  /\ IdleRest
  /\ IdleTri
  /\ IdleConc
  /\ IdleTest
  /\ IdlePaste
  /\ shell \in Shells
  /\ \E c \in CallerVars, a \in S, b \in S :
       env = [IFS |-> c.IFS, i |-> c.i, ver1 |-> c.ver1, ver2 |-> c.ver2,
              v1 |-> a, v2 |-> b]
  /\ env0 = env
  /\ arg1 = <<>>
  /\ arg2 = <<>>
  /\ frame = NoFrame
  /\ pc = "caller"
  /\ status = 0
  /\ log = <<>>
  /\ nsplit = 0
  /\ neval = 0
  /\ npad = 0
  /\ ncmp = 0
  /\ ndiag = 0

Init == InitFrom(Inputs)

InitBad == InitFrom(BadInputs)

\* The calls the caller makes, as in test_version_pair with the pair in both
\* orders: versionLT "$v1" "$v2", then versionLT "$v2" "$v1".
Schedule == << <<"v1", "v2">>, <<"v2", "v1">> >>

Invoke ==
  /\ pc = "caller"
  /\ Len(log) < Len(Schedule)
  /\ arg1' = env[Schedule[Len(log) + 1][1]]
  /\ arg2' = env[Schedule[Len(log) + 1][2]]
  /\ pc' = "entry"
  /\ nsplit' = 0
  /\ neval' = 0
  /\ npad' = 0
  /\ ncmp' = 0
  /\ ndiag' = 0
  /\ UNCHANGED <<shell, env, env0, frame, status, log>>
  /\ UNCHANGED others

\* Variant of Return: the status is the truth value (1 for true).
ReturnTruth(s, st) ==
  /\ status' = 1 - s
  /\ log' = Append(log, 1 - s)
  /\ frame' = NoFrame
  /\ env' = st.env
  /\ pc' = "caller"

\* return s: the status goes to the caller and the locals are dropped.
Return(s, st) ==
  /\ status' = s
  /\ log' = Append(log, s)
  /\ frame' = NoFrame
  /\ env' = st.env
  /\ pc' = "caller"

\* Variant of SameString: no short-circuit on identical strings.
SameStringNever(x, y) == FALSE

\* The test [ "$1" = "$2" ] of line 6.
SameString(x, y) == x = y

\* Line 6: [ "$1" = "$2" ] && return 1
Enter ==
  /\ pc = "entry"
  /\ IF SameString(arg1, arg2)
     THEN Return(1, [frame |-> frame, env |-> env])
     ELSE /\ pc' = "decl"
          /\ UNCHANGED <<env, frame, status, log>>
  /\ UNCHANGED <<shell, env0, arg1, arg2, nsplit, neval, npad, ncmp, ndiag>>
  /\ UNCHANGED others

\* Lines 8, 9 and the initialisation of the loop of line 12:
\* local IFS=. ; local i ver1=($1) ver2=($2) ; i=${#ver1[@]}
Locals ==
  /\ pc = "decl"
  /\ LET s0 == [frame |-> frame, env |-> env]
         s1 == Declare(s0, "IFS", <<".">>)
         s2 == Declare(s1, "i", 0)
         s3 == Declare(s2, "ver1", Split(arg1, Lookup(s2, "IFS")))
         s4 == Declare(s3, "ver2", Split(arg2, Lookup(s3, "IFS")))
         s5 == Assign(s4, "i", Len(Lookup(s4, "ver1")))
     IN  /\ frame' = s5.frame
         /\ env' = s5.env
  /\ nsplit' = nsplit + 2
  /\ pc' = "pad"
  /\ UNCHANGED <<shell, env0, arg1, arg2, status, log, neval, npad, ncmp, ndiag>>
  /\ UNCHANGED others

\* Lines 12 to 14, one iteration: ver1[i]=0 ; i++
PadStep ==
  /\ pc = "pad"
  /\ LET s0 == [frame |-> frame, env |-> env]
         k  == Lookup(s0, "i")
         s1 == Assign(s0, "ver1", ArraySet(Lookup(s0, "ver1"), k, <<"0">>))
         s2 == Assign(s1, "i", k + 1)
     IN  /\ k < Len(Lookup(s0, "ver2"))
         /\ frame' = s2.frame
         /\ env' = s2.env
  /\ npad' = npad + 1
  /\ UNCHANGED <<shell, env0, arg1, arg2, pc, status, log, nsplit, neval, ncmp,
                 ndiag>>
  /\ UNCHANGED others

\* The loop of line 12 ends; the loop of line 16 starts with i=0.
PadExit ==
  /\ pc = "pad"
  /\ LET s0 == [frame |-> frame, env |-> env]
         s1 == Assign(s0, "i", 0)
     IN  /\ ~(Lookup(s0, "i") < Len(Lookup(s0, "ver2")))
         /\ frame' = s1.frame
         /\ env' = s1.env
  /\ pc' = "cmp"
  /\ UNCHANGED <<shell, env0, arg1, arg2, status, log, nsplit, neval, npad, ncmp,
                 ndiag>>
  /\ UNCHANGED others

\* A failed evaluation inside an expansion: bash prints the diagnostic,
\* drops the running functions and the command that called them, and goes
\* on at the top level; the caller never sees a status.
Abort(st) ==
  /\ status' = 1
  /\ frame' = NoFrame
  /\ env' = st.env
  /\ pc' = "aborted"
  /\ UNCHANGED log

\* Lines 16 to 26, one iteration.
CmpStep ==
  /\ pc = "cmp"
  /\ LET s0 == [frame |-> frame, env |-> env]
         k  == Lookup(s0, "i")
         s1 == IF ArrayGet(Lookup(s0, "ver2"), k) = <<>>
               THEN Assign(s0, "ver2", ArraySet(Lookup(s0, "ver2"), k, <<"0">>))
               ELSE s0
         x  == ArrayGet(Lookup(s1, "ver1"), k)
         y  == ArrayGet(Lookup(s1, "ver2"), k)
         s2 == Assign(s1, "i", k + 1)
     IN  /\ k < Len(Lookup(s0, "ver1"))
         /\ IF ArithErr(x, y, shell) /\ ArithErrorAborts
            THEN Abort(s1) /\ neval' = neval + 1 /\ ndiag' = ndiag + 1
            ELSE IF ArithLT(x, y, shell)
            THEN Return(0, s1) /\ neval' = neval + 1 /\ ndiag' = ndiag
            ELSE IF ArithGT(x, y, shell)
            THEN Return(1, s1) /\ neval' = neval + 2 /\ ndiag' = ndiag
            ELSE /\ frame' = s2.frame
                 /\ env' = s2.env
                 /\ neval' = neval + 2
                 /\ ndiag' = (IF ArithErr(x, y, shell) THEN ndiag + 2 ELSE ndiag)
                 /\ UNCHANGED <<pc, status, log>>
  /\ ncmp' = ncmp + 1
  /\ UNCHANGED <<shell, env0, arg1, arg2, nsplit, npad>>
  /\ UNCHANGED others

\* Line 27: the loop of line 16 ends, return 1.
CmpExit ==
  /\ pc = "cmp"
  /\ LET s0 == [frame |-> frame, env |-> env]
     IN  /\ ~(Lookup(s0, "i") < Len(Lookup(s0, "ver1")))
         /\ Return(1, s0)
  /\ UNCHANGED <<shell, env0, arg1, arg2, nsplit, neval, npad, ncmp, ndiag>>
  /\ UNCHANGED others

Next == Invoke \/ Enter \/ Locals \/ PadStep \/ PadExit \/ CmpStep \/ CmpExit

Spec == Init /\ [][Next]_vars

\* The shell runs the script one step after the other for as long as a step
\* is left.
FairSpec == InitBad /\ [][Next]_vars /\ WF_vars(Next)

\* ---------------------------------------------------------------------
\* The same function as an operator on a call and the global variables it
\* runs with, for callers that run it more than once or side by side.

\* A call of versionLT a b that has not started.
NewCall(a, b) ==
  [pc |-> "entry", arg1 |-> a, arg2 |-> b, frame |-> NoFrame, status |-> 0]

\* The call goes on at p.
Goto(c, st, p) ==
  [call |-> [c EXCEPT !.pc = p, !.frame = st.frame], env |-> st.env]

\* return s
Finish(c, st, s) ==
  [call |-> [c EXCEPT !.pc = "done", !.status = s, !.frame = NoFrame],
   env |-> st.env]

\* One step of the call c with the global variables g under the shell sh:
\* line 6, lines 8 and 9, one iteration of the loop of line 12, or one
\* iteration of the loop of line 16.
StepCall(c, g, sh) ==
  LET s0 == [frame |-> c.frame, env |-> g]
  IN  CASE c.pc = "entry" ->
             IF SameString(c.arg1, c.arg2)
             THEN Finish(c, s0, 1)
             ELSE Goto(c, s0, "decl")
        [] c.pc = "decl" ->
             LET s1 == Declare(s0, "IFS", <<".">>)
                 s2 == Declare(s1, "i", 0)
                 s3 == Declare(s2, "ver1", Split(c.arg1, Lookup(s2, "IFS")))
                 s4 == Declare(s3, "ver2", Split(c.arg2, Lookup(s3, "IFS")))
                 s5 == Assign(s4, "i", Len(Lookup(s4, "ver1")))
             IN  Goto(c, s5, "pad")
        [] c.pc = "pad" ->
             LET k  == Lookup(s0, "i")
                 s1 == Assign(s0, "ver1",
                              ArraySet(Lookup(s0, "ver1"), k, <<"0">>))
                 s2 == Assign(s1, "i", k + 1)
             IN  IF k < Len(Lookup(s0, "ver2"))
                 THEN Goto(c, s2, "pad")
                 ELSE Goto(c, Assign(s0, "i", 0), "cmp")
        [] c.pc = "cmp" ->
             LET k  == Lookup(s0, "i")
                 s1 == IF ArrayGet(Lookup(s0, "ver2"), k) = <<>>
                       THEN Assign(s0, "ver2",
                                   ArraySet(Lookup(s0, "ver2"), k, <<"0">>))
                       ELSE s0
                 x  == ArrayGet(Lookup(s1, "ver1"), k)
                 y  == ArrayGet(Lookup(s1, "ver2"), k)
                 s2 == Assign(s1, "i", k + 1)
             IN  IF ~(k < Len(Lookup(s0, "ver1")))
                 THEN Finish(c, s0, 1)
                 ELSE IF ArithErr(x, y, sh) /\ ArithErrorAborts
                 THEN [call |-> [c EXCEPT !.pc = "aborted", !.status = 1,
                                          !.frame = NoFrame],
                       env |-> s1.env]
                 ELSE IF ArithLT(x, y, sh)
                 THEN Finish(c, s1, 0)
                 ELSE IF ArithGT(x, y, sh)
                 THEN Finish(c, s1, 1)
                 ELSE Goto(c, s2, "cmp")
        [] OTHER -> [call |-> c, env |-> g]

\* The call has ended.
Ended(c) == c.pc \in {"done", "aborted"}

RECURSIVE RunCall(_, _, _)
\* The call c run to its end without anything else running in between.
RunCall(c, g, sh) ==
  IF Ended(c)
  THEN [call |-> c, env |-> g]
  ELSE LET r == StepCall(c, g, sh) IN RunCall(r.call, r.env, sh)

\* The status of versionLT a b called with the global variables g.
versionLT(a, b, g, sh) == RunCall(NewCall(a, b), g, sh).call.status

\* The global variables of a script that has set none of its own.
DefaultEnv ==
  [IFS |-> <<" ", "\t", "\n">>, i |-> 0, ver1 |-> <<>>, ver2 |-> <<>>]

\* ---------------------------------------------------------------------
\* Three versions compared pairwise

\* Longest string enumerated for the three versions.
MaxTriLen == 3

\* Versions of one, two and three fields from the test script.
TriVectors ==
  { <<"2", ".", "1", "0", "0">>,           <<"2", ".", "1", "0", "0", ".", "0">>,
    <<"2", ".", "1", "0", "0", ".", "1">>, <<"1", ".", "9", ".", "9">>,
    <<"2">>,                               <<"2", ".", "0", ".", "0">> }

\* The dotted-numeric strings among the enumerated ones.
TriInputs ==
  { s \in UNION {[1..n -> Chars] : n \in 1..MaxTriLen} :
      /\ s[1] # "."
      /\ s[Len(s)] # "."
      /\ \A k \in 1..(Len(s) - 1) : ~(s[k] = "." /\ s[k + 1] = ".") }
  \cup TriVectors

\* The comparisons made, in order: a with b, b with c, a with c.
TriSchedule == << <<"a", "b">>, <<"b", "c">>, <<"a", "c">> >>

InitTri ==
  /\ IdleRest
  /\ IdleCall
  /\ IdleConc
  /\ IdleTest
  /\ IdlePaste
  /\ shell \in Shells
  /\ tri \in [a : TriInputs, b : TriInputs, c : TriInputs]
  /\ tres = <<>>

\* versionLT "$x" "$y"; the status is kept.
Compare ==
  /\ Len(tres) < Len(TriSchedule)
  /\ LET x == tri[TriSchedule[Len(tres) + 1][1]]
         y == tri[TriSchedule[Len(tres) + 1][2]]
     IN  tres' = Append(tres, versionLT(x, y, DefaultEnv, shell))
  /\ UNCHANGED <<shell, callvars, cx, sv, hk, tri, concvars, testvars, pastevars>>

TriSpec == InitTri /\ [][Compare]_vars

\* ---------------------------------------------------------------------
\* Calls running side by side

\* Number of calls running side by side.
NumCalls == 2

\* Versions the calls compare: equal once padded, smaller, and larger.
ConcInputs ==
  { <<"1">>, <<"1", ".", "0">>, <<"0", ".", "1">> }

\* Every call has its own arguments and its own scope of locals; the calls
\* are given the same global variables, the most that callers of one shell
\* can share (a background job or a subshell starts with a copy of them).
InitConc ==
  /\ IdleRest
  /\ IdleCall
  /\ IdleTri
  /\ IdleTest
  /\ IdlePaste
  /\ shell \in Shells
  /\ \E g \in CallerVars :
       \E args \in [1..NumCalls -> [a : ConcInputs, b : ConcInputs]] :
         /\ cin = [args |-> args, env |-> g, mixed |-> FALSE]
         /\ procs = [p \in 1..NumCalls |-> NewCall(args[p].a, args[p].b)]
         /\ cenv = g

\* Another call than p is past its entry and has not ended.
Overlaps(p) ==
  \E q \in 1..NumCalls :
    q # p /\ procs[q].pc # "entry" /\ ~Ended(procs[q])

\* The call p makes its next step.
ConcStep ==
  \E p \in 1..NumCalls :
    /\ ~Ended(procs[p])
    /\ LET r == StepCall(procs[p], cenv, shell)
       IN  /\ procs' = [procs EXCEPT ![p] = r.call]
           /\ cenv' = r.env
    /\ cin' = [cin EXCEPT !.mixed = cin.mixed \/ Overlaps(p)]
    /\ UNCHANGED <<shell, callvars, cx, sv, hk, trivars, testvars, pastevars>>

ConcSpec == InitConc /\ [][ConcStep]_vars

\* ---------------------------------------------------------------------
\* The test script

\* The calls of test_version_pair, in the order of the script: v1, v2 and
\* the expected status (0 = true, 1 = false).
TestVectors ==
  << << <<"2", ".", "1", "9", "0">>, <<"2", ".", "2", "0", "0">>, 0 >>,
     << <<"2", ".", "2", "0", "0">>, <<"2", ".", "1", "9", "0">>, 1 >>,
     << <<"2", ".", "2", "0", "0">>, <<"2", ".", "2", "0", "0">>, 1 >>,
     << <<"2", ".", "1", "0", "0", ".", "1">>,
        <<"2", ".", "1", "0", "0", ".", "2">>, 0 >>,
     << <<"2", ".", "1", "0", "0">>, <<"2", ".", "1", "0", "0", ".", "0">>,
        1 >> >>

\* The third argument of the calls as the script gives it.
Expected == [k \in 1..Len(TestVectors) |-> TestVectors[k][3]]

\* The statuses a vector can expect.
Statuses == {0, 1}

\* A line written by echo.
Line(text, v1, v2) == [text |-> text, v1 |-> v1, v2 |-> v2]

\* The third argument of every call is drawn from Statuses, the values of
\* the script among them, so that vectors fail as well as pass.
InitTest ==
  /\ IdleRest
  /\ IdleCall
  /\ IdleTri
  /\ IdleConc
  /\ IdlePaste
  /\ shell \in Shells
  /\ texp \in [1..Len(TestVectors) -> Statuses]
  /\ tpc = "start"
  /\ tact = <<>>
  /\ tout = <<>>
  /\ texit = 0

\* Line 5: echo "Running version comparison tests..."
TestStart ==
  /\ tpc = "start"
  /\ tout' = Append(tout, Line("Running version comparison tests...",
                               <<>>, <<>>))
  /\ tpc' = "run"
  /\ UNCHANGED <<shell, callvars, cx, sv, hk, trivars, concvars, pastevars, texp, tact,
                 texit>>

\* Variant of Matches: the test of line 14 with -ne.
MatchesNot(actual, expected) == actual # expected

\* Line 14: [ "$actual" -eq "$expected" ]
Matches(actual, expected) == actual = expected

\* Lines 8 to 19 for the next vector: versionLT "$v1" "$v2"; actual=$?;
\* then PASS, or FAIL and exit 1.
TestPair ==
  /\ tpc = "run"
  /\ Len(tact) < Len(TestVectors)
  /\ LET k      == Len(tact) + 1
         v1     == TestVectors[k][1]
         v2     == TestVectors[k][2]
         actual == versionLT(v1, v2, DefaultEnv, shell)
     IN  /\ tact' = Append(tact, actual)
         /\ IF Matches(actual, texp[k])
            THEN /\ tout' = Append(tout, Line("PASS", v1, v2))
                 /\ UNCHANGED <<tpc, texit>>
            ELSE /\ tout' = Append(tout, Line("FAIL", v1, v2))
                 /\ tpc' = "failed"
                 /\ texit' = 1
  /\ UNCHANGED <<shell, callvars, cx, sv, hk, trivars, concvars, pastevars, texp>>

\* Line 29: echo "All tests passed!"; the script ends with the status of
\* the echo.
TestEnd ==
  /\ tpc = "run"
  /\ Len(tact) = Len(TestVectors)
  /\ tout' = Append(tout, Line("All tests passed!", <<>>, <<>>))
  /\ tpc' = "passed"
  /\ texit' = 0
  /\ UNCHANGED <<shell, callvars, cx, sv, hk, trivars, concvars, pastevars, texp, tact>>

TestNext == TestStart \/ TestPair \/ TestEnd

TestSpec == InitTest /\ [][TestNext]_vars

\* ---------------------------------------------------------------------
\* The encryption of paste ids for URLs

\* A string, or null.
Str(s) == [null |-> FALSE, value |-> s]

Null == [null |-> TRUE, value |-> <<>>]

\* The value a function returns, or the fact that it threw.
Returns(v) == [threw |-> FALSE, null |-> v.null, value |-> v.value]

Throws == [threw |-> TRUE, null |-> TRUE, value |-> <<>>]

\* The alphabet of base64.
B64 ==
  <<"A", "B", "C", "D", "E", "F", "G", "H", "I", "J", "K", "L", "M", "N",
    "O", "P", "Q", "R", "S", "T", "U", "V", "W", "X", "Y", "Z", "a", "b", "c",
    "d", "e", "f", "g", "h", "i", "j", "k", "l", "m", "n", "o", "p", "q", "r",
    "s", "t", "u", "v", "w", "x", "y", "z", "0", "1", "2", "3", "4", "5", "6",
    "7", "8", "9", "+", "/">>

B64Pad == "="

\* The place of a character in the alphabet, from 0. The decoder of
\* Buffer reads the URL-safe characters - and _ like + and /.
B64Value(c) ==
  IF c = "-" THEN 62
  ELSE IF c = "_" THEN 63
  ELSE (CHOOSE k \in 1..Len(B64) : B64[k] = c) - 1

IsB64Char(c) == c \in {B64[k] : k \in 1..Len(B64)} \cup {"-", "_"}

RECURSIVE Base64Encode(_)
\* The base64 text of a sequence of bytes, padded with = to a multiple of 4.
Base64Encode(bytes) ==
  IF bytes = <<>> THEN <<>>
  ELSE LET b1 == bytes[1]
           b2 == IF Len(bytes) >= 2 THEN bytes[2] ELSE 0
           b3 == IF Len(bytes) >= 3 THEN bytes[3] ELSE 0
           c1 == B64[(b1 \div 4) + 1]
           c2 == B64[((b1 % 4) * 16) + (b2 \div 16) + 1]
           c3 == B64[((b2 % 16) * 4) + (b3 \div 64) + 1]
           c4 == B64[(b3 % 64) + 1]
       IN  IF Len(bytes) = 1 THEN <<c1, c2, B64Pad, B64Pad>>
           ELSE IF Len(bytes) = 2 THEN <<c1, c2, c3, B64Pad>>
           ELSE <<c1, c2, c3, c4>> \o Base64Encode(SubSeq(bytes, 4, Len(bytes)))

\* The text before the first =.
BeforePad(s) ==
  IF \E k \in 1..Len(s) : s[k] = B64Pad
  THEN SubSeq(s, 1, (CHOOSE k \in 1..Len(s) :
                       s[k] = B64Pad /\ \A j \in 1..(k - 1) : s[j] # B64Pad) - 1)
  ELSE s

RECURSIVE SextetsToBytes(_)
\* Groups of four sextets give three bytes; two or three left over give one
\* or two bytes, one left over gives none.
SextetsToBytes(v) ==
  IF Len(v) < 2 THEN <<>>
  ELSE LET x1 == (v[1] * 4) + (v[2] \div 16)
           x2 == ((v[2] % 16) * 16) + (v[3] \div 4)
           x3 == ((v[3] % 4) * 64) + v[4]
       IN  IF Len(v) = 2 THEN <<x1>>
           ELSE IF Len(v) = 3 THEN <<x1, x2>>
           ELSE <<x1, x2, x3>> \o SextetsToBytes(SubSeq(v, 5, Len(v)))

\* The bytes of a base64 text as Buffer decodes it: characters outside the
\* alphabet are skipped and the text ends at the first =; nothing throws.
Base64Decode(s) ==
  LET t == SelectSeq(BeforePad(s), IsB64Char)
  IN  SextetsToBytes([k \in 1..Len(t) |-> B64Value(t[k])])

\* Variant of UrlSafeChar: / is rewritten to - like +.
UrlSafeCharSame(c) == IF c \in {"+", "/"} THEN "-" ELSE c

\* .replace(/\+/g, '-').replace(/\//g, '_') on one character (line 15).
UrlSafeChar(c) == IF c = "+" THEN "-" ELSE IF c = "/" THEN "_" ELSE c

NotPad(c) == c # B64Pad

\* Line 15: + to -, / to _, every = removed.
ToUrlSafe(s) == SelectSeq([k \in 1..Len(s) |-> UrlSafeChar(s[k])], NotPad)

\* Line 22: - to +, _ to /.
FromUrlSafe(s) ==
  [k \in 1..Len(s) |->
     IF s[k] = "-" THEN "+" ELSE IF s[k] = "_" THEN "/" ELSE s[k]]

RECURSIVE Repad(_)
\* Lines 23 to 25: = is appended until the length is a multiple of 4.
Repad(s) == IF Len(s) % 4 # 0 THEN Repad(Append(s, B64Pad)) ELSE s

\* The UTF-8 bytes of a string of the characters of CharCode.
Utf8(s) == [k \in 1..Len(s) |-> CharCode[s[k]]]

\* The string of a sequence of bytes; a byte that is no character of
\* CharCode shows as a question mark.
FromUtf8(bytes) ==
  [k \in 1..Len(bytes) |->
     IF \E c \in DOMAIN CharCode : CharCode[c] = bytes[k]
     THEN CHOOSE c \in DOMAIN CharCode : CharCode[c] = bytes[k]
     ELSE "?"]

\* The block length of the cipher, in bytes.
BlockSize == 16

\* What the cipher aes-256-cbc gives under the key and the iv of lines 2 and
\* 3 (their first 32 and 16 characters): the ciphertext, PKCS#7 padding
\* included, of the UTF-8 bytes of each ObjectId of ObjectIds, and of one
\* other plaintext whose ciphertext differs from that of the first ObjectId
\* in one byte.
AesSamples ==
  {
    [plain |->
       <<54, 56, 56, 49, 98, 98, 99, 53, 100, 49, 54, 100, 55, 55, 57, 101,
         100, 50, 55, 55, 99, 98, 50, 49>>,
     cipher |->
       <<97, 207, 87, 62, 52, 186, 189, 156, 144, 49, 198, 207, 79, 36, 77,
         50, 112, 125, 97, 130, 103, 51, 177, 95, 43, 46, 90, 53, 110, 184,
         135, 84>>],
    [plain |->
       <<54, 56, 56, 49, 98, 98, 99, 53, 100, 49, 54, 100, 55, 55, 57, 101,
         100, 50, 55, 55, 99, 98, 50, 50>>,
     cipher |->
       <<97, 207, 87, 62, 52, 186, 189, 156, 144, 49, 198, 207, 79, 36, 77,
         50, 168, 216, 13, 22, 152, 196, 151, 229, 92, 174, 219, 145, 86, 58,
         95, 135>>],
    [plain |->
       <<54, 56, 56, 49, 98, 98, 99, 53, 100, 49, 54, 100, 55, 55, 57, 101,
         100, 50, 55, 55, 99, 98, 50, 51>>,
     cipher |->
       <<97, 207, 87, 62, 52, 186, 189, 156, 144, 49, 198, 207, 79, 36, 77,
         50, 130, 157, 175, 159, 97, 29, 158, 120, 195, 4, 212, 168, 39, 72,
         133, 169>>],
    [plain |->
       <<54, 56, 56, 49, 98, 98, 99, 53, 100, 49, 54, 100, 55, 55, 57, 101,
         100, 50, 55, 55, 99, 98, 50, 52>>,
     cipher |->
       <<97, 207, 87, 62, 52, 186, 189, 156, 144, 49, 198, 207, 79, 36, 77,
         50, 242, 237, 245, 243, 51, 148, 61, 114, 22, 21, 8, 91, 166, 65, 15,
         211>>],
    [plain |->
       <<54, 56, 56, 49, 98, 98, 99, 53, 100, 49, 54, 100, 55, 55, 57, 101,
         100, 50, 55, 55, 99, 98, 50, 102>>,
     cipher |->
       <<97, 207, 87, 62, 52, 186, 189, 156, 144, 49, 198, 207, 79, 36, 77,
         50, 54, 127, 31, 129, 148, 53, 43, 92, 48, 226, 220, 158, 159, 236,
         228, 254>>],
    [plain |->
       <<54, 56, 56, 49, 98, 98, 99, 53, 100, 49, 54, 100, 55, 55, 57, 101,
         100, 50, 55, 55, 99, 98, 51, 48>>,
     cipher |->
       <<97, 207, 87, 62, 52, 186, 189, 156, 144, 49, 198, 207, 79, 36, 77,
         50, 142, 247, 135, 84, 137, 31, 48, 32, 55, 167, 16, 238, 122, 78,
         227, 59>>],
    [plain |->
       <<54, 56, 56, 49, 98, 98, 99, 53, 100, 49, 54, 100, 55, 55, 57, 101,
         100, 50, 55, 55, 99, 98, 102, 101>>,
     cipher |->
       <<97, 207, 87, 62, 52, 186, 189, 156, 144, 49, 198, 207, 79, 36, 77,
         50, 219, 220, 90, 198, 69, 177, 170, 114, 75, 233, 3, 190, 0, 39,
         207, 70>>],
    [plain |->
       <<54, 56, 56, 49, 98, 98, 99, 53, 100, 49, 54, 100, 55, 55, 57, 101,
         100, 50, 55, 55, 99, 98, 102, 102>>,
     cipher |->
       <<97, 207, 87, 62, 52, 186, 189, 156, 144, 49, 198, 207, 79, 36, 77,
         50, 177, 253, 159, 139, 184, 239, 224, 84, 146, 49, 67, 84, 230, 136,
         111, 214>>],
    [plain |->
       <<54, 56, 56, 49, 98, 98, 99, 54, 100, 49, 54, 100, 55, 55, 57, 101,
         100, 50, 55, 55, 99, 98, 50, 49>>,
     cipher |->
       <<109, 165, 19, 226, 137, 143, 39, 98, 129, 19, 10, 164, 77, 84, 117,
         234, 94, 220, 76, 194, 177, 247, 174, 166, 161, 67, 146, 129, 173,
         243, 47, 57>>],
    [plain |->
       <<54, 56, 56, 49, 98, 98, 99, 54, 100, 49, 54, 100, 55, 55, 57, 101,
         100, 50, 55, 55, 99, 98, 50, 50>>,
     cipher |->
       <<109, 165, 19, 226, 137, 143, 39, 98, 129, 19, 10, 164, 77, 84, 117,
         234, 108, 135, 15, 51, 104, 18, 130, 70, 231, 161, 129, 181, 199,
         243, 148, 177>>],
    [plain |->
       <<54, 56, 56, 49, 98, 98, 99, 54, 100, 49, 54, 100, 55, 55, 57, 101,
         100, 50, 55, 55, 99, 98, 50, 51>>,
     cipher |->
       <<109, 165, 19, 226, 137, 143, 39, 98, 129, 19, 10, 164, 77, 84, 117,
         234, 104, 229, 14, 171, 7, 9, 127, 91, 192, 53, 131, 61, 74, 115,
         146, 219>>],
    [plain |->
       <<54, 56, 56, 49, 98, 98, 99, 54, 100, 49, 54, 100, 55, 55, 57, 101,
         100, 50, 55, 55, 99, 98, 50, 52>>,
     cipher |->
       <<109, 165, 19, 226, 137, 143, 39, 98, 129, 19, 10, 164, 77, 84, 117,
         234, 151, 78, 59, 10, 131, 237, 121, 157, 174, 208, 13, 115, 78, 40,
         89, 93>>],
    [plain |->
       <<54, 56, 56, 49, 98, 98, 99, 54, 100, 49, 54, 100, 55, 55, 57, 101,
         100, 50, 55, 55, 99, 98, 50, 102>>,
     cipher |->
       <<109, 165, 19, 226, 137, 143, 39, 98, 129, 19, 10, 164, 77, 84, 117,
         234, 4, 48, 45, 185, 242, 102, 233, 207, 246, 155, 28, 10, 100, 36,
         133, 49>>],
    [plain |->
       <<54, 56, 56, 49, 98, 98, 99, 54, 100, 49, 54, 100, 55, 55, 57, 101,
         100, 50, 55, 55, 99, 98, 51, 48>>,
     cipher |->
       <<109, 165, 19, 226, 137, 143, 39, 98, 129, 19, 10, 164, 77, 84, 117,
         234, 103, 98, 89, 159, 133, 74, 2, 33, 8, 64, 51, 177, 188, 222, 149,
         161>>],
    [plain |->
       <<54, 56, 56, 49, 98, 98, 99, 54, 100, 49, 54, 100, 55, 55, 57, 101,
         100, 50, 55, 55, 99, 98, 102, 101>>,
     cipher |->
       <<109, 165, 19, 226, 137, 143, 39, 98, 129, 19, 10, 164, 77, 84, 117,
         234, 232, 30, 195, 57, 76, 139, 228, 104, 115, 201, 52, 125, 228,
         173, 92, 189>>],
    [plain |->
       <<54, 56, 56, 49, 98, 98, 99, 54, 100, 49, 54, 100, 55, 55, 57, 101,
         100, 50, 55, 55, 99, 98, 102, 102>>,
     cipher |->
       <<109, 165, 19, 226, 137, 143, 39, 98, 129, 19, 10, 164, 77, 84, 117,
         234, 69, 14, 143, 145, 45, 219, 76, 130, 59, 1, 6, 184, 239, 224, 95,
         36>>],
    [plain |->
       <<53, 48, 55, 102, 49, 102, 55, 55, 98, 99, 102, 56, 54, 99, 100, 55,
         57, 57, 52, 51, 57, 48, 50, 49>>,
     cipher |->
       <<85, 56, 233, 81, 88, 164, 99, 132, 191, 178, 187, 79, 189, 100, 75,
         247, 95, 164, 129, 94, 0, 225, 17, 253, 167, 149, 156, 108, 23, 235,
         70, 147>>],
    [plain |->
       <<53, 48, 55, 102, 49, 102, 55, 55, 98, 99, 102, 56, 54, 99, 100, 55,
         57, 57, 52, 51, 57, 48, 50, 50>>,
     cipher |->
       <<85, 56, 233, 81, 88, 164, 99, 132, 191, 178, 187, 79, 189, 100, 75,
         247, 35, 48, 150, 66, 192, 143, 34, 135, 13, 181, 228, 219, 75, 103,
         227, 193>>],
    [plain |->
       <<53, 48, 55, 102, 49, 102, 55, 55, 98, 99, 102, 56, 54, 99, 100, 55,
         57, 57, 52, 51, 57, 48, 50, 51>>,
     cipher |->
       <<85, 56, 233, 81, 88, 164, 99, 132, 191, 178, 187, 79, 189, 100, 75,
         247, 116, 90, 72, 239, 215, 27, 219, 82, 136, 83, 136, 151, 70, 207,
         129, 169>>],
    [plain |->
       <<53, 48, 55, 102, 49, 102, 55, 55, 98, 99, 102, 56, 54, 99, 100, 55,
         57, 57, 52, 51, 57, 48, 50, 52>>,
     cipher |->
       <<85, 56, 233, 81, 88, 164, 99, 132, 191, 178, 187, 79, 189, 100, 75,
         247, 74, 13, 172, 165, 97, 72, 219, 42, 14, 124, 51, 126, 104, 198,
         160, 9>>],
    [plain |->
       <<53, 48, 55, 102, 49, 102, 55, 55, 98, 99, 102, 56, 54, 99, 100, 55,
         57, 57, 52, 51, 57, 48, 50, 102>>,
     cipher |->
       <<85, 56, 233, 81, 88, 164, 99, 132, 191, 178, 187, 79, 189, 100, 75,
         247, 24, 218, 190, 161, 76, 8, 255, 20, 125, 162, 179, 171, 232, 174,
         70, 68>>],
    [plain |->
       <<53, 48, 55, 102, 49, 102, 55, 55, 98, 99, 102, 56, 54, 99, 100, 55,
         57, 57, 52, 51, 57, 48, 51, 48>>,
     cipher |->
       <<85, 56, 233, 81, 88, 164, 99, 132, 191, 178, 187, 79, 189, 100, 75,
         247, 89, 190, 83, 224, 78, 197, 13, 225, 181, 129, 226, 235, 209, 19,
         69, 61>>],
    [plain |->
       <<53, 48, 55, 102, 49, 102, 55, 55, 98, 99, 102, 56, 54, 99, 100, 55,
         57, 57, 52, 51, 57, 48, 102, 101>>,
     cipher |->
       <<85, 56, 233, 81, 88, 164, 99, 132, 191, 178, 187, 79, 189, 100, 75,
         247, 160, 101, 170, 192, 233, 159, 106, 214, 42, 242, 90, 86, 8, 140,
         185, 57>>],
    [plain |->
       <<53, 48, 55, 102, 49, 102, 55, 55, 98, 99, 102, 56, 54, 99, 100, 55,
         57, 57, 52, 51, 57, 48, 102, 102>>,
     cipher |->
       <<85, 56, 233, 81, 88, 164, 99, 132, 191, 178, 187, 79, 189, 100, 75,
         247, 51, 204, 70, 122, 105, 19, 1, 140, 115, 240, 133, 196, 35, 25,
         121, 232>>],
    [plain |->
       <<102, 102, 102, 102, 102, 102, 102, 102, 102, 102, 102, 102, 102,
         102, 102, 102, 102, 102, 102, 102, 102, 102, 50, 49>>,
     cipher |->
       <<112, 107, 158, 29, 79, 238, 17, 32, 51, 9, 215, 174, 80, 128, 205,
         36, 109, 23, 169, 13, 130, 149, 11, 40, 7, 94, 139, 199, 218, 231,
         167, 7>>],
    [plain |->
       <<102, 102, 102, 102, 102, 102, 102, 102, 102, 102, 102, 102, 102,
         102, 102, 102, 102, 102, 102, 102, 102, 102, 50, 50>>,
     cipher |->
       <<112, 107, 158, 29, 79, 238, 17, 32, 51, 9, 215, 174, 80, 128, 205,
         36, 131, 152, 200, 54, 115, 224, 25, 165, 92, 7, 88, 183, 106, 138,
         109, 154>>],
    [plain |->
       <<102, 102, 102, 102, 102, 102, 102, 102, 102, 102, 102, 102, 102,
         102, 102, 102, 102, 102, 102, 102, 102, 102, 50, 51>>,
     cipher |->
       <<112, 107, 158, 29, 79, 238, 17, 32, 51, 9, 215, 174, 80, 128, 205,
         36, 134, 186, 207, 255, 138, 57, 83, 255, 38, 59, 124, 24, 100, 105,
         226, 222>>],
    [plain |->
       <<102, 102, 102, 102, 102, 102, 102, 102, 102, 102, 102, 102, 102,
         102, 102, 102, 102, 102, 102, 102, 102, 102, 50, 52>>,
     cipher |->
       <<112, 107, 158, 29, 79, 238, 17, 32, 51, 9, 215, 174, 80, 128, 205,
         36, 41, 16, 51, 5, 223, 22, 85, 214, 147, 142, 178, 148, 36, 208,
         170, 126>>],
    [plain |->
       <<102, 102, 102, 102, 102, 102, 102, 102, 102, 102, 102, 102, 102,
         102, 102, 102, 102, 102, 102, 102, 102, 102, 50, 102>>,
     cipher |->
       <<112, 107, 158, 29, 79, 238, 17, 32, 51, 9, 215, 174, 80, 128, 205,
         36, 1, 223, 147, 47, 115, 42, 81, 217, 162, 45, 175, 77, 58, 56, 32,
         70>>],
    [plain |->
       <<102, 102, 102, 102, 102, 102, 102, 102, 102, 102, 102, 102, 102,
         102, 102, 102, 102, 102, 102, 102, 102, 102, 51, 48>>,
     cipher |->
       <<112, 107, 158, 29, 79, 238, 17, 32, 51, 9, 215, 174, 80, 128, 205,
         36, 186, 141, 89, 63, 103, 174, 31, 153, 158, 157, 232, 249, 203, 0,
         250, 98>>],
    [plain |->
       <<102, 102, 102, 102, 102, 102, 102, 102, 102, 102, 102, 102, 102,
         102, 102, 102, 102, 102, 102, 102, 102, 102, 102, 101>>,
     cipher |->
       <<112, 107, 158, 29, 79, 238, 17, 32, 51, 9, 215, 174, 80, 128, 205,
         36, 58, 206, 200, 182, 179, 224, 170, 166, 167, 66, 22, 134, 86, 215,
         54, 248>>],
    [plain |->
       <<102, 102, 102, 102, 102, 102, 102, 102, 102, 102, 102, 102, 102,
         102, 102, 102, 102, 102, 102, 102, 102, 102, 102, 102>>,
     cipher |->
       <<112, 107, 158, 29, 79, 238, 17, 32, 51, 9, 215, 174, 80, 128, 205,
         36, 47, 129, 180, 70, 132, 200, 197, 125, 15, 156, 51, 207, 21, 17,
         101, 38>>],
    [plain |->
       <<48, 48, 48, 48, 48, 48, 48, 48, 48, 48, 48, 48, 48, 48, 48, 48, 48,
         48, 48, 48, 48, 97, 50, 49>>,
     cipher |->
       <<249, 146, 16, 42, 63, 210, 73, 109, 218, 111, 107, 234, 203, 171,
         157, 234, 205, 204, 124, 47, 109, 166, 208, 43, 204, 224, 63, 122,
         12, 217, 174, 159>>],
    [plain |->
       <<48, 48, 48, 48, 48, 48, 48, 48, 48, 48, 48, 48, 48, 48, 48, 48, 48,
         48, 48, 48, 48, 97, 50, 50>>,
     cipher |->
       <<249, 146, 16, 42, 63, 210, 73, 109, 218, 111, 107, 234, 203, 171,
         157, 234, 176, 185, 210, 111, 114, 94, 34, 16, 140, 121, 236, 167,
         226, 13, 108, 109>>],
    [plain |->
       <<48, 48, 48, 48, 48, 48, 48, 48, 48, 48, 48, 48, 48, 48, 48, 48, 48,
         48, 48, 48, 48, 97, 50, 51>>,
     cipher |->
       <<249, 146, 16, 42, 63, 210, 73, 109, 218, 111, 107, 234, 203, 171,
         157, 234, 41, 225, 51, 200, 157, 0, 70, 111, 146, 154, 207, 116, 234,
         107, 101, 177>>],
    [plain |->
       <<48, 48, 48, 48, 48, 48, 48, 48, 48, 48, 48, 48, 48, 48, 48, 48, 48,
         48, 48, 48, 48, 97, 50, 52>>,
     cipher |->
       <<249, 146, 16, 42, 63, 210, 73, 109, 218, 111, 107, 234, 203, 171,
         157, 234, 82, 125, 245, 77, 110, 187, 115, 210, 147, 113, 197, 182,
         157, 206, 72, 73>>],
    [plain |->
       <<48, 48, 48, 48, 48, 48, 48, 48, 48, 48, 48, 48, 48, 48, 48, 48, 48,
         48, 48, 48, 48, 97, 50, 102>>,
     cipher |->
       <<249, 146, 16, 42, 63, 210, 73, 109, 218, 111, 107, 234, 203, 171,
         157, 234, 158, 104, 206, 33, 48, 51, 215, 188, 120, 109, 97, 57, 184,
         64, 209, 178>>],
    [plain |->
       <<48, 48, 48, 48, 48, 48, 48, 48, 48, 48, 48, 48, 48, 48, 48, 48, 48,
         48, 48, 48, 48, 97, 51, 48>>,
     cipher |->
       <<249, 146, 16, 42, 63, 210, 73, 109, 218, 111, 107, 234, 203, 171,
         157, 234, 45, 207, 167, 17, 208, 23, 232, 219, 110, 192, 51, 83, 254,
         176, 167, 116>>],
    [plain |->
       <<48, 48, 48, 48, 48, 48, 48, 48, 48, 48, 48, 48, 48, 48, 48, 48, 48,
         48, 48, 48, 48, 97, 102, 101>>,
     cipher |->
       <<249, 146, 16, 42, 63, 210, 73, 109, 218, 111, 107, 234, 203, 171,
         157, 234, 250, 114, 93, 179, 49, 20, 102, 103, 203, 167, 216, 181,
         62, 234, 5, 177>>],
    [plain |->
       <<48, 48, 48, 48, 48, 48, 48, 48, 48, 48, 48, 48, 48, 48, 48, 48, 48,
         48, 48, 48, 48, 97, 102, 102>>,
     cipher |->
       <<249, 146, 16, 42, 63, 210, 73, 109, 218, 111, 107, 234, 203, 171,
         157, 234, 34, 106, 8, 103, 233, 141, 90, 144, 208, 87, 225, 76, 28,
         51, 73, 59>>],
    [plain |->
       <<122, 168, 3, 73, 68, 204, 154, 232, 18, 188, 106, 101, 157, 19,
         217, 239, 100, 50, 55, 55, 99, 98, 50, 49, 8, 8, 8, 8, 8, 8, 8>>,
     cipher |->
       <<97, 207, 87, 62, 52, 186, 189, 156, 144, 49, 198, 207, 79, 36, 77,
         59, 112, 125, 97, 130, 103, 51, 177, 95, 43, 46, 90, 53, 110, 184,
         135, 84>>]
  }

\* ObjectIds of pastes: four timestamps and the ends of the counter range.
ObjectIds ==
  { <<"6", "8", "8", "1", "b", "b", "c", "5", "d", "1", "6", "d", "7", "7",
      "9", "e", "d", "2", "7", "7", "c", "b", "2", "1">>,
    <<"6", "8", "8", "1", "b", "b", "c", "5", "d", "1", "6", "d", "7", "7",
      "9", "e", "d", "2", "7", "7", "c", "b", "2", "2">>,
    <<"6", "8", "8", "1", "b", "b", "c", "5", "d", "1", "6", "d", "7", "7",
      "9", "e", "d", "2", "7", "7", "c", "b", "2", "3">>,
    <<"6", "8", "8", "1", "b", "b", "c", "5", "d", "1", "6", "d", "7", "7",
      "9", "e", "d", "2", "7", "7", "c", "b", "2", "4">>,
    <<"6", "8", "8", "1", "b", "b", "c", "5", "d", "1", "6", "d", "7", "7",
      "9", "e", "d", "2", "7", "7", "c", "b", "2", "f">>,
    <<"6", "8", "8", "1", "b", "b", "c", "5", "d", "1", "6", "d", "7", "7",
      "9", "e", "d", "2", "7", "7", "c", "b", "3", "0">>,
    <<"6", "8", "8", "1", "b", "b", "c", "5", "d", "1", "6", "d", "7", "7",
      "9", "e", "d", "2", "7", "7", "c", "b", "f", "e">>,
    <<"6", "8", "8", "1", "b", "b", "c", "5", "d", "1", "6", "d", "7", "7",
      "9", "e", "d", "2", "7", "7", "c", "b", "f", "f">>,
    <<"6", "8", "8", "1", "b", "b", "c", "6", "d", "1", "6", "d", "7", "7",
      "9", "e", "d", "2", "7", "7", "c", "b", "2", "1">>,
    <<"6", "8", "8", "1", "b", "b", "c", "6", "d", "1", "6", "d", "7", "7",
      "9", "e", "d", "2", "7", "7", "c", "b", "2", "2">>,
    <<"6", "8", "8", "1", "b", "b", "c", "6", "d", "1", "6", "d", "7", "7",
      "9", "e", "d", "2", "7", "7", "c", "b", "2", "3">>,
    <<"6", "8", "8", "1", "b", "b", "c", "6", "d", "1", "6", "d", "7", "7",
      "9", "e", "d", "2", "7", "7", "c", "b", "2", "4">>,
    <<"6", "8", "8", "1", "b", "b", "c", "6", "d", "1", "6", "d", "7", "7",
      "9", "e", "d", "2", "7", "7", "c", "b", "2", "f">>,
    <<"6", "8", "8", "1", "b", "b", "c", "6", "d", "1", "6", "d", "7", "7",
      "9", "e", "d", "2", "7", "7", "c", "b", "3", "0">>,
    <<"6", "8", "8", "1", "b", "b", "c", "6", "d", "1", "6", "d", "7", "7",
      "9", "e", "d", "2", "7", "7", "c", "b", "f", "e">>,
    <<"6", "8", "8", "1", "b", "b", "c", "6", "d", "1", "6", "d", "7", "7",
      "9", "e", "d", "2", "7", "7", "c", "b", "f", "f">>,
    <<"5", "0", "7", "f", "1", "f", "7", "7", "b", "c", "f", "8", "6", "c",
      "d", "7", "9", "9", "4", "3", "9", "0", "2", "1">>,
    <<"5", "0", "7", "f", "1", "f", "7", "7", "b", "c", "f", "8", "6", "c",
      "d", "7", "9", "9", "4", "3", "9", "0", "2", "2">>,
    <<"5", "0", "7", "f", "1", "f", "7", "7", "b", "c", "f", "8", "6", "c",
      "d", "7", "9", "9", "4", "3", "9", "0", "2", "3">>,
    <<"5", "0", "7", "f", "1", "f", "7", "7", "b", "c", "f", "8", "6", "c",
      "d", "7", "9", "9", "4", "3", "9", "0", "2", "4">>,
    <<"5", "0", "7", "f", "1", "f", "7", "7", "b", "c", "f", "8", "6", "c",
      "d", "7", "9", "9", "4", "3", "9", "0", "2", "f">>,
    <<"5", "0", "7", "f", "1", "f", "7", "7", "b", "c", "f", "8", "6", "c",
      "d", "7", "9", "9", "4", "3", "9", "0", "3", "0">>,
    <<"5", "0", "7", "f", "1", "f", "7", "7", "b", "c", "f", "8", "6", "c",
      "d", "7", "9", "9", "4", "3", "9", "0", "f", "e">>,
    <<"5", "0", "7", "f", "1", "f", "7", "7", "b", "c", "f", "8", "6", "c",
      "d", "7", "9", "9", "4", "3", "9", "0", "f", "f">>,
    <<"f", "f", "f", "f", "f", "f", "f", "f", "f", "f", "f", "f", "f", "f",
      "f", "f", "f", "f", "f", "f", "f", "f", "2", "1">>,
    <<"f", "f", "f", "f", "f", "f", "f", "f", "f", "f", "f", "f", "f", "f",
      "f", "f", "f", "f", "f", "f", "f", "f", "2", "2">>,
    <<"f", "f", "f", "f", "f", "f", "f", "f", "f", "f", "f", "f", "f", "f",
      "f", "f", "f", "f", "f", "f", "f", "f", "2", "3">>,
    <<"f", "f", "f", "f", "f", "f", "f", "f", "f", "f", "f", "f", "f", "f",
      "f", "f", "f", "f", "f", "f", "f", "f", "2", "4">>,
    <<"f", "f", "f", "f", "f", "f", "f", "f", "f", "f", "f", "f", "f", "f",
      "f", "f", "f", "f", "f", "f", "f", "f", "2", "f">>,
    <<"f", "f", "f", "f", "f", "f", "f", "f", "f", "f", "f", "f", "f", "f",
      "f", "f", "f", "f", "f", "f", "f", "f", "3", "0">>,
    <<"f", "f", "f", "f", "f", "f", "f", "f", "f", "f", "f", "f", "f", "f",
      "f", "f", "f", "f", "f", "f", "f", "f", "f", "e">>,
    <<"f", "f", "f", "f", "f", "f", "f", "f", "f", "f", "f", "f", "f", "f",
      "f", "f", "f", "f", "f", "f", "f", "f", "f", "f">>,
    <<"0", "0", "0", "0", "0", "0", "0", "0", "0", "0", "0", "0", "0", "0",
      "0", "0", "0", "0", "0", "0", "0", "a", "2", "1">>,
    <<"0", "0", "0", "0", "0", "0", "0", "0", "0", "0", "0", "0", "0", "0",
      "0", "0", "0", "0", "0", "0", "0", "a", "2", "2">>,
    <<"0", "0", "0", "0", "0", "0", "0", "0", "0", "0", "0", "0", "0", "0",
      "0", "0", "0", "0", "0", "0", "0", "a", "2", "3">>,
    <<"0", "0", "0", "0", "0", "0", "0", "0", "0", "0", "0", "0", "0", "0",
      "0", "0", "0", "0", "0", "0", "0", "a", "2", "4">>,
    <<"0", "0", "0", "0", "0", "0", "0", "0", "0", "0", "0", "0", "0", "0",
      "0", "0", "0", "0", "0", "0", "0", "a", "2", "f">>,
    <<"0", "0", "0", "0", "0", "0", "0", "0", "0", "0", "0", "0", "0", "0",
      "0", "0", "0", "0", "0", "0", "0", "a", "3", "0">>,
    <<"0", "0", "0", "0", "0", "0", "0", "0", "0", "0", "0", "0", "0", "0",
      "0", "0", "0", "0", "0", "0", "0", "a", "f", "e">>,
    <<"0", "0", "0", "0", "0", "0", "0", "0", "0", "0", "0", "0", "0", "0",
      "0", "0", "0", "0", "0", "0", "0", "a", "f", "f">> }

\* Other values of the parameter: empty, short, not base64, a token with its
\* last character dropped, changed or followed by another, the first block
\* of a token alone, a token changed in its first half, a token with its
\* padding left in, and tokens of the right length that no id encrypts to.
OtherTokens ==
  { <<>>,
    <<"a", "b", "c">>,
    <<"f", "a", "v", "i", "c", "o", "n">>,
    <<"!", "!", "!", "!">>,
    <<"Y", "c", "9", "X", "P", "j", "S", "6", "v", "Z", "y", "Q", "M", "c",
      "b", "P", "T", "y", "R", "N", "M", "n", "B", "9", "Y", "Y", "J", "n",
      "M", "7", "F", "f", "K", "y", "5", "a", "N", "W", "6", "4", "h", "1">>,
    <<"Y", "c", "9", "X", "P", "j", "S", "6", "v", "Z", "y", "Q", "M", "c",
      "b", "P", "T", "y", "R", "N", "M", "n", "B", "9", "Y", "Y", "J", "n",
      "M", "7", "F", "f", "K", "y", "5", "a", "N", "W", "6", "4", "h", "1",
      "A">>,
    <<"Y", "c", "9", "X", "P", "j", "S", "6", "v", "Z", "y", "Q", "M", "c",
      "b", "P", "T", "y", "R", "N", "M", "n", "B", "9", "Y", "Y", "J", "n",
      "M", "7", "F", "f", "K", "y", "5", "a", "N", "W", "6", "4", "h", "1",
      "Q", "A">>,
    <<"Y", "c", "9", "X", "P", "j", "S", "6", "v", "Z", "y", "Q", "M", "c",
      "b", "P", "T", "y", "R", "N", "M", "n">>,
    <<"Y", "c", "9", "X", "P", "j", "S", "6", "v", "Z", "y", "Q", "M", "c",
      "b", "P", "T", "y", "R", "N", "O", "3", "B", "9", "Y", "Y", "J", "n",
      "M", "7", "F", "f", "K", "y", "5", "a", "N", "W", "6", "4", "h", "1",
      "Q">>,
    <<"Y", "c", "9", "X", "P", "j", "S", "6", "v", "Z", "y", "Q", "M", "c",
      "b", "P", "T", "y", "R", "N", "M", "q", "j", "Y", "D", "R", "a", "Y",
      "x", "J", "f", "l", "X", "K", "7", "b", "k", "V", "Y", "6", "X", "4",
      "c", "=">>,
    <<"A", "A", "A", "A", "A", "A", "A", "A", "A", "A", "A", "A", "A", "A",
      "A", "A", "A", "A", "A", "A", "A", "A", "A", "A", "A", "A", "A", "A",
      "A", "A", "A", "A", "A", "A", "A", "A", "A", "A", "A", "A", "A", "A",
      "A">>,
    <<"A", "A", "A", "A", "A", "A", "A", "A", "A", "A", "A", "A", "A", "A",
      "A", "A", "A", "A", "A", "A", "A", "A">> }

\* cipher.update followed by cipher.final (lines 7 to 13), as bytes.
Cipher(plain) == (CHOOSE r \in AesSamples : r.plain = plain).cipher

\* decipher.update followed by decipher.final (lines 27 to 33), as bytes:
\* final throws when the length is no positive multiple of the block
\* length and when the padding of the last block is wrong.
Decipher(c) ==
  IF Len(c) = 0 \/ Len(c) % BlockSize # 0 THEN [ok |-> FALSE, plain |-> <<>>]
  ELSE IF \E r \in AesSamples : r.cipher = c
  THEN [ok |-> TRUE, plain |-> (CHOOSE r \in AesSamples : r.cipher = c).plain]
  ELSE [ok |-> FALSE, plain |-> <<>>]

\* encryptObjectId (lines 6 to 16).
encryptObjectId(objectId) == ToUrlSafe(Base64Encode(Cipher(Utf8(objectId))))

\* Lines 22 to 34, the body of the try: null has no replace, and final may
\* throw.
DecryptBody(encryptedId) ==
  IF encryptedId.null THEN Throws
  ELSE LET padded == Repad(FromUrlSafe(encryptedId.value))
           d == Decipher(Base64Decode(padded))
       IN  IF d.ok THEN Returns(Str(FromUtf8(d.plain))) ELSE Throws

\* Variant of Catch: no try around the body.
CatchNothing(r) == r

\* Lines 35 to 38: catch (error) { ...; return null; }
Catch(r) == IF r.threw THEN Returns(Null) ELSE r

\* decryptObjectId (lines 19 to 39).
decryptObjectId(encryptedId) == Catch(DecryptBody(encryptedId))

\* An id, or a value of the parameter that was not made from one.
InitCrypt ==
  /\ IdleCall
  /\ IdleTri
  /\ IdleConc
  /\ IdleTest
  /\ IdlePaste
  /\ IdleShare
  /\ IdleHaiku
  /\ shell = "strict"
  /\ \/ \E id \in ObjectIds :
          cx = [kind |-> "id", input |-> Str(id), pc |-> "start",
                enc |-> <<>>, dec |-> Returns(Null)]
     \/ \E t \in {Str(x) : x \in OtherTokens} \cup {Null} :
          cx = [kind |-> "token", input |-> t, pc |-> "start",
                enc |-> <<>>, dec |-> Returns(Null)]

\* encryptObjectId(newPaste.id)
EncryptId ==
  /\ cx.pc = "start"
  /\ cx.kind = "id"
  /\ cx' = [cx EXCEPT !.enc = encryptObjectId(cx.input.value),
                      !.pc = "encrypted"]
  /\ UNCHANGED <<shell, callvars, trivars, concvars, testvars, pastevars, sv,
                 hk>>

\* decryptObjectId of the encrypted id that was handed out.
DecryptId ==
  /\ cx.pc = "encrypted"
  /\ cx' = [cx EXCEPT !.dec = decryptObjectId(Str(cx.enc)),
                      !.pc = "decrypted"]
  /\ UNCHANGED <<shell, callvars, trivars, concvars, testvars, pastevars, sv,
                 hk>>

\* decryptObjectId of whatever the request holds.
DecryptOther ==
  /\ cx.pc = "start"
  /\ cx.kind = "token"
  /\ cx' = [cx EXCEPT !.dec = decryptObjectId(cx.input), !.pc = "decrypted"]
  /\ UNCHANGED <<shell, callvars, trivars, concvars, testvars, pastevars, sv,
                 hk>>

CryptNext == EncryptId \/ DecryptId \/ DecryptOther

CryptSpec == InitCrypt /\ [][CryptNext]_vars

\* ---------------------------------------------------------------------
\* The paste store and its cleanup

\* Most pastes created in a run.
MaxPastes == 2

\* Number of clock steps in a run.
MaxTicks == 4

\* The period of the development cleanup timer, in milliseconds; the clock
\* of the model advances by this much at a time.
Interval == 30000

\* The end of the clock.
Horizon == MaxTicks * Interval

Modes == {"development", "production"}

\* Values of the form field paste_expiration, already split at the blank
\* and with the number parsed: "never", minutes, and a unit the switch does
\* not know.
ExpirationStrings ==
  { <<"never">>, <<0, "minutes">>, <<1, "minutes">>, <<1, "minute">>,
    <<1, "fortnights">> }

\* parseExpirationTime: the number of milliseconds, or an exception.
parseExpirationTime(e) ==
  IF e = <<"never">> THEN [ok |-> TRUE, ms |-> 0]
  ELSE LET numericValue == e[1]
           unit == e[2]
       IN  CASE unit \in {"minutes", "minute"} ->
                  [ok |-> TRUE, ms |-> numericValue * 60 * 1000]
             [] unit \in {"hours", "hour"} ->
                  [ok |-> TRUE, ms |-> numericValue * 3600 * 1000]
             [] unit \in {"days", "day"} ->
                  [ok |-> TRUE, ms |-> numericValue * 86400 * 1000]
             [] unit \in {"weeks", "week"} ->
                  [ok |-> TRUE, ms |-> numericValue * 604800 * 1000]
             [] unit \in {"months", "month"} ->
                  [ok |-> TRUE, ms |-> numericValue * 2592000 * 1000]
             [] unit \in {"years", "year"} ->
                  [ok |-> TRUE, ms |-> numericValue * 31536000 * 1000]
             [] OTHER -> [ok |-> FALSE, ms |-> 0]

\* A stored paste: paste_expiration is null (never) or a time.
Paste(id, never, at) == [id |-> id, never |-> never, paste_expiration |-> at]

\* The server starts in either mode with an empty collection.
InitPaste ==
  /\ IdleRest
  /\ IdleCall
  /\ IdleTri
  /\ IdleConc
  /\ IdleTest
  /\ shell = "strict"
  /\ pmode \in Modes
  /\ pnow = 0
  /\ pstore = {}
  /\ pnext = 0
  /\ plast = [by |-> "", ok |-> TRUE, count |-> 0]
  /\ presp = <<>>

\* Time passes.
Tick ==
  /\ pnow < Horizon
  /\ pnow' = pnow + Interval
  /\ UNCHANGED <<shell, callvars, cx, sv, hk, trivars, concvars, testvars, presp, pmode, pstore,
                 pnext, plast>>

\* The action createPaste: the expiration is null for "never", else
\* Date.now() plus the parsed time; an exception of the parser gives a
\* response 500 and no paste. Pastes are created while their expiration
\* lies before the end of the clock.
CreatePaste ==
  \E e \in ExpirationStrings :
    LET never == e = <<"never">>
        t     == parseExpirationTime(e)
        expirationTimestamp == IF never THEN 0 ELSE pnow + t.ms
    IN  /\ pnext < MaxPastes
        /\ t.ok
        /\ expirationTimestamp < Horizon
        /\ pstore' = pstore \cup {Paste(pnext + 1, never, expirationTimestamp)}
        /\ pnext' = pnext + 1
        /\ UNCHANGED <<shell, callvars, cx, sv, hk, trivars, concvars, testvars, presp, pmode,
                       pnow, plast>>

\* Variant of Expired: null compares as 0.
ExpiredOrNull(p, now) == p.never \/ p.paste_expiration < now

\* Variant of Expired: gt, the filter of getAllPastes.
ExpiredGt(p, now) == ~p.never /\ p.paste_expiration > now

\* The filter of deleteMany: paste_expiration lt now; null matches no
\* comparison.
Expired(p, now) == ~p.never /\ p.paste_expiration < now

\* deleteExpiredPastes, run by `by': the expired pastes are deleted and
\* their number is returned.
deleteExpiredPastes(by) ==
  LET gone == {p \in pstore : Expired(p, pnow)}
  IN  /\ pstore' = pstore \ gone
      /\ plast' = [by |-> by, ok |-> TRUE, count |-> Cardinality(gone)]
      /\ UNCHANGED <<shell, callvars, cx, sv, hk, trivars, concvars, testvars, presp, pmode, pnow,
                     pnext>>

\* deleteMany throws: the caller catches the error and nothing is deleted.
CleanupError(by) ==
  /\ plast' = [by |-> by, ok |-> FALSE, count |-> 0]
  /\ UNCHANGED <<shell, callvars, cx, sv, hk, trivars, concvars, testvars, presp, pmode, pnow,
                 pstore, pnext>>

\* The callback of the timer startDevCleanup sets at server start, in
\* development only.
DevCleanup == pmode = "development" /\ deleteExpiredPastes("timer")

DevCleanupError == pmode = "development" /\ CleanupError("timer")

\* GET /api/cleanup, the request of the scheduled job or of any client, in
\* either mode.
GetCleanup == pmode \in Modes /\ deleteExpiredPastes("GET")

GetCleanupError == pmode \in Modes /\ CleanupError("GET")

\* The scheduled job of the deployment requests /api/cleanup.
CronCleanup == pmode = "production" /\ GetCleanup

PasteNext ==
  \/ Tick
  \/ CreatePaste
  \/ DevCleanup
  \/ DevCleanupError
  \/ GetCleanup
  \/ GetCleanupError

PasteSpec == InitPaste /\ [][PasteNext]_vars

\* The ObjectIds the database gives to the pastes, in the order of their
\* creation; the last is never given.
NewIds ==
  << <<"6", "8", "8", "1", "b", "b", "c", "5", "d", "1", "6", "d", "7", "7",
       "9", "e", "d", "2", "7", "7", "c", "b", "2", "1">>,
     <<"6", "8", "8", "1", "b", "b", "c", "5", "d", "1", "6", "d", "7", "7",
       "9", "e", "d", "2", "7", "7", "c", "b", "2", "2">>,
     <<"6", "8", "8", "1", "b", "b", "c", "5", "d", "1", "6", "d", "7", "7",
       "9", "e", "d", "2", "7", "7", "c", "b", "2", "3">>,
     <<"6", "8", "8", "1", "b", "b", "c", "5", "d", "1", "6", "d", "7", "7",
       "9", "e", "d", "2", "7", "7", "c", "b", "2", "4">> >>

\* An encrypted id whose decryption is no ObjectId.
NoObjectIdToken ==
  <<"Y", "c", "9", "X", "P", "j", "S", "6", "v", "Z", "y", "Q", "M", "c", "b",
    "P", "T", "y", "R", "N", "O", "3", "B", "9", "Y", "Y", "J", "n", "M", "7",
    "F", "f", "K", "y", "5", "a", "N", "W", "6", "4", "h", "1", "Q">>

\* Values of the parameter id of a request: the encrypted ids of pastes,
\* none, one that does not decrypt and one that decrypts to no ObjectId.
RequestIds ==
  {Str(encryptObjectId(NewIds[n])) : n \in 1..Len(NewIds)}
    \cup {Null, Str(<<"a", "b", "c">>), Str(NoObjectIdToken)}

\* findUnique({ where: { id } }): the paste with this ObjectId, if any. An
\* id that is no ObjectId makes the query throw.
getPaste(id) ==
  IF id \notin {NewIds[n] : n \in 1..Len(NewIds)} THEN Throws
  ELSE IF \E p \in pstore : NewIds[p.id] = id
  THEN [threw |-> FALSE, null |-> FALSE,
        value |-> CHOOSE p \in pstore : NewIds[p.id] = id]
  ELSE Returns(Null)

\* A response: the status, and the paste of a 200.
Response(st, msg, paste) == [status |-> st, message |-> msg, paste |-> paste]

\* Line 19 of GET /api: if (!paste) is the only test of what getPaste
\* returned.
Served(r, now) == ~r.null

\* GET /api?id=...: 404 for an id that does not decrypt and for a paste
\* that is not in the collection, 500 when getPaste throws, else the paste.
GetPaste ==
  \E encryptedId \in RequestIds :
    LET objectId == decryptObjectId(encryptedId)
        r == getPaste(objectId.value)
    IN  /\ pmode \in Modes
        /\ presp' =
             IF objectId.null \/ objectId.value = <<>>
             THEN Response(404, "Invalid paste ID", <<>>)
             ELSE IF r.threw
             THEN Response(500, "Internal Error", <<>>)
             ELSE IF ~Served(r, pnow)
             THEN Response(404, "Paste not found or expired", <<>>)
             ELSE Response(200, "", r.value)
        /\ UNCHANGED <<shell, callvars, cx, sv, hk, trivars, concvars,
                       testvars, pmode, pnow, pstore, pnext, plast>>

ServeNext == PasteNext \/ GetPaste

\* The store with its cleanup and with the requests for pastes.
ServeSpec == InitPaste /\ [][ServeNext]_vars

\* Time passes; the timer keeps firing in development and the scheduled
\* job keeps requesting /api/cleanup in production, and the database does
\* not fail for ever. Nothing is assumed of the users.
FairPasteSpec ==
  /\ PasteSpec
  /\ WF_vars(Tick)
  /\ WF_vars(DevCleanup)
  /\ WF_vars(CronCleanup)

\* ---------------------------------------------------------------------
\* The repository share server

\* Most shares created in a run.
MaxShares == 2

\* Number of clock steps in a run.
MaxShareTicks == 3

\* The clock advances by an hour, in milliseconds.
Hour == 60 * 60 * 1000

\* The users with a session.
Users == {"alice", "bob"}

\* Values of repo in the body of a request: absent, empty, without and
\* with a slash.
Repos ==
  { Null, Str(<<>>), Str(<<"r", "e", "p", "o">>),
    Str(<<"o", "w", "n", "/", "r", "e", "p", "o">>) }

\* Values of expiresInHours in the body: absent, numbers, and one that is
\* no number.
ExpiresIn ==
  {[kind |-> "absent", hours |-> 0], [kind |-> "NaN", hours |-> 0]}
    \cup {[kind |-> "number", hours |-> h] : h \in {-1, 0, 1}}

\* The tokens a request can hold: those that crypto.randomBytes gives to
\* the shares, in the order of their creation, and 0, which it never gives.
ShareTokens == 0..MaxShares

InitShare ==
  /\ IdleCall
  /\ IdleTri
  /\ IdleConc
  /\ IdleTest
  /\ IdlePaste
  /\ IdleCrypt
  /\ IdleHaiku
  /\ shell = "strict"
  /\ sv = [now |-> 0, shares |-> <<>>, made |-> 0, expired |-> {},
           resp |-> [route |-> "", by |-> "none", token |-> 0, status |-> 0]]

\* The other variables stay.
ShareFrame ==
  UNCHANGED <<shell, callvars, trivars, concvars, testvars, pastevars, cx, hk>>

ShareTick ==
  /\ sv.now < MaxShareTicks * Hour
  /\ sv' = [sv EXCEPT !.now = @ + Hour]
  /\ ShareFrame

\* Variant of ValidRepo: only the presence of repo is tested.
ValidRepoPresent(repo) == ~repo.null /\ repo.value # <<>>

\* Line 136: repo && repo.includes('/')
ValidRepo(repo) ==
  /\ ~repo.null
  /\ repo.value # <<>>
  /\ \E k \in 1..Len(repo.value) : repo.value[k] = "/"

\* Line 141: new Date(Date.now() + expiresInHours * 60 * 60 * 1000); the
\* default is 24, and what is no number gives an invalid date.
ExpiresAt(now, expiresInHours) ==
  IF expiresInHours.kind = "NaN" THEN [valid |-> FALSE, time |-> 0]
  ELSE IF expiresInHours.kind = "absent"
  THEN [valid |-> TRUE, time |-> now + (24 * 60 * 60 * 1000)]
  ELSE [valid |-> TRUE,
        time |-> now + (expiresInHours.hours * 60 * 60 * 1000)]

\* shares.set(token, share)
MapSet(m, token, share) ==
  [t \in DOMAIN m \cup {token} |-> IF t = token THEN share ELSE m[t]]

\* Variant of MapDelete: the entry stays.
MapDeleteNothing(m, token) == m

\* shares.delete(token)
MapDelete(m, token) == [t \in DOMAIN m \ {token} |-> m[t]]

\* POST /api/share (lines 130 to 157) by a user with a session, or by
\* none. toISOString throws on an invalid date, after the share is set: no
\* response is sent (status 0).
PostShare ==
  \E user \in Users \cup {"none"}, repo \in Repos, e \in ExpiresIn :
    LET shareToken == sv.made + 1
        expiresAt == ExpiresAt(sv.now, e)
        share == [repo |-> repo.value, branch |-> "main",
                  expiresAt |-> expiresAt, owner |-> user,
                  createdAt |-> sv.now]
    IN  /\ sv.made < MaxShares
        /\ IF user = "none"
           THEN sv' = [sv EXCEPT !.resp = [route |-> "share", by |-> user,
                                           token |-> 0, status |-> 401]]
           ELSE IF ~ValidRepo(repo)
           THEN sv' = [sv EXCEPT !.resp = [route |-> "share", by |-> user,
                                           token |-> 0, status |-> 400]]
           ELSE sv' = [sv EXCEPT
                         !.shares = MapSet(@, shareToken, share),
                         !.made = shareToken,
                         !.resp = [route |-> "share", by |-> user,
                                   token |-> shareToken,
                                   status |-> IF expiresAt.valid
                                              THEN 200 ELSE 0]]
        /\ ShareFrame

\* Line 165: share.expiresAt < new Date(); false for an invalid date.
ShareExpired(share, now) == share.expiresAt.valid /\ share.expiresAt.time < now

\* GET /api/repo-content/:token (lines 159 to 186); the request to GitHub
\* succeeds or fails.
GetContent ==
  \E token \in ShareTokens, github \in {200, 500} :
    /\ IF token \notin DOMAIN sv.shares
       THEN sv' = [sv EXCEPT !.resp = [route |-> "content", by |-> "none",
                                       token |-> token, status |-> 404]]
       ELSE IF ShareExpired(sv.shares[token], sv.now)
       THEN sv' = [sv EXCEPT
                     !.shares = MapDelete(@, token),
                     !.expired = @ \cup {token},
                     !.resp = [route |-> "content", by |-> "none",
                               token |-> token, status |-> 410]]
       ELSE sv' = [sv EXCEPT !.resp = [route |-> "content", by |-> "none",
                                       token |-> token, status |-> github]]
    /\ ShareFrame

ShareNext == ShareTick \/ PostShare \/ GetContent

ShareSpec == InitShare /\ [][ShareNext]_vars

\* ---------------------------------------------------------------------
\* The haiku generator

\* Variant of DefaultRetries: one more.
MoreRetries == 3 + 1

\* Line 16: retries = 3
DefaultRetries == 3

\* Lines 79 to 81: generateLine(5), generateLine(7), generateLine(5)
SyllableCounts == <<5, 7, 5>>

\* A line of text, by where it comes from; the words of a generated line
\* are those of the data files.
HaikuLine(kind, text, count) ==
  [kind |-> kind, text |-> text, syllables |-> count]

\* Variant of FallbackLine: the same line for every syllable count.
FallbackLineFive(syllableCount) ==
  HaikuLine("fallback", "Code runs smoothly now,", 5)

\* Lines 21 to 23
FallbackLine(syllableCount) ==
  IF syllableCount = 5
  THEN HaikuLine("fallback", "Code runs smoothly now,", 5)
  ELSE HaikuLine("fallback", "Functions work in silent peace.", 7)

\* Line 74: lineText, whose count syllable() has found equal to
\* syllableCount
GeneratedLine(syllableCount) ==
  HaikuLine("generated", "lineText", syllableCount)

\* Line 85: the haiku returned when generateLine throws
CatchHaiku ==
  << HaikuLine("catch", "Code flows like a stream,", 5),
     HaikuLine("catch", "Functions dance in silent loops,", 7),
     HaikuLine("catch", "Debug brings the dawn.", 5) >>

\* The ways an attempt of generateLine ends in a retry, by the message it
\* writes: no templates for the key (line 28), a category that the word
\* bank lacks (line 42), no word with the syllables (line 47), a count
\* that differs (line 64), syllable() throwing (line 70).
RetryOutcomes ==
  {"No templates", "Invalid wordBank category", "No words",
   "Syllable mismatch", "Syllable validation failed"}

\* generateHaiku has been called.
InitHaiku ==
  /\ IdleCall
  /\ IdleTri
  /\ IdleConc
  /\ IdleTest
  /\ IdlePaste
  /\ IdleCrypt
  /\ IdleShare
  /\ shell = "strict"
  /\ hk = [pc |-> "generateHaiku", index |-> 0, syllableCount |-> 0,
           retries |-> 0, calls |-> 0, lines |-> <<>>, result |-> <<>>,
           console |-> ""]

HaikuFrame ==
  UNCHANGED <<shell, callvars, trivars, concvars, testvars, pastevars, cx, sv>>

\* generateLine(count) is called with the default of retries.
CallLine(h, index) ==
  [h EXCEPT !.pc = "generateLine", !.index = index,
            !.syllableCount = SyllableCounts[index],
            !.retries = DefaultRetries, !.calls = 1]

\* Line 79: the first call.
HaikuCall ==
  /\ hk.pc = "generateHaiku"
  /\ hk' = CallLine(hk, 1)
  /\ HaikuFrame

\* generateLine returns line to generateHaiku, which calls it for the next
\* line or returns the three lines joined by newlines (line 82).
ReturnLine(h, line) ==
  LET lines == Append(h.lines, line)
  IN  IF h.index < Len(SyllableCounts)
      THEN CallLine([h EXCEPT !.lines = lines], h.index + 1)
      ELSE [h EXCEPT !.pc = "returned", !.lines = lines, !.result = lines]

\* Lines 17 to 24
Fallback ==
  /\ hk.pc = "generateLine"
  /\ hk.retries = 0
  /\ hk' = ReturnLine([hk EXCEPT !.console = "Failed to generate line"],
                      FallbackLine(hk.syllableCount))
  /\ HaikuFrame

\* retries - 1
Fewer(retries) == retries - 1

\* return generateLine(syllableCount, retries - 1), at lines 29, 43, 48, 67
\* and 71
Retry ==
  \E message \in RetryOutcomes :
    /\ hk.pc = "generateLine"
    /\ hk.retries # 0
    /\ hk' = [hk EXCEPT !.retries = Fewer(@), !.calls = @ + 1,
                        !.console = message]
    /\ HaikuFrame

\* Line 74
Generated ==
  /\ hk.pc = "generateLine"
  /\ hk.retries # 0
  /\ hk' = ReturnLine(hk, GeneratedLine(hk.syllableCount))
  /\ HaikuFrame

\* templates.json and words.json decide the outcome of an attempt, with
\* the random choices; an empty list of templates, an empty pattern or an
\* entry without a word makes lines 32, 35 or 56 throw a TypeError, which
\* is caught at line 83.
Thrown ==
  /\ hk.pc = "generateLine"
  /\ hk.retries # 0
  /\ hk' = [hk EXCEPT !.pc = "returned", !.result = CatchHaiku,
                      !.console = "Haiku generation failed"]
  /\ HaikuFrame

HaikuNext == HaikuCall \/ Fallback \/ Retry \/ Generated \/ Thrown

HaikuSpec == InitHaiku /\ [][HaikuNext]_vars

\* A call of generateHaiku runs to its return.
FairHaikuSpec == HaikuSpec /\ WF_vars(HaikuNext)

----------------------------------------------------------------------------
\* The numeric order of versions, stated on the strings themselves

\* s is a well-formed dotted-numeric string: digits separated by single dots.
IsVersion(s) ==
  /\ Len(s) > 0
  /\ \A k \in 1..Len(s) : s[k] \in Digits \cup {"."}
  /\ s[1] # "."
  /\ s[Len(s)] # "."
  /\ \A k \in 1..(Len(s) - 1) : ~(s[k] = "." /\ s[k + 1] = ".")

\* s has a field that is not made of digits only.
HasNonNumeric(s) == \E k \in 1..Len(s) : s[k] \notin Digits \cup {"."}

DotsIn(s) == {k \in 1..Len(s) : s[k] = "."}

FieldCount(s) == Cardinality(DotsIn(s)) + 1

\* The position of the n-th dot of s; 0 and Len(s) + 1 stand for the ends.
Edge(s, n) ==
  IF n = 0 THEN 0
  ELSE IF n > Cardinality(DotsIn(s)) THEN Len(s) + 1
  ELSE CHOOSE p \in DotsIn(s) : Cardinality({q \in DotsIn(s) : q <= p}) = n

FieldText(s, n) == SubSeq(s, Edge(s, n - 1) + 1, Edge(s, n) - 1)

RECURSIVE Decimal(_, _)
Decimal(f, acc) ==
  IF f = <<>> THEN acc ELSE Decimal(Tail(f), 10 * acc + DigitVal[Head(f)])

\* The n-th number of version s, 0 past its last field.
At(s, n) == IF n <= FieldCount(s) THEN Decimal(FieldText(s, n), 0) ELSE 0

Width(a, b) == IF FieldCount(a) < FieldCount(b) THEN FieldCount(b) ELSE FieldCount(a)

\* The leftmost position where the zero-padded numbers of a and b differ
\* (as a set: empty when they are equal everywhere).
FirstDiff(a, b) ==
  {n \in 1..Width(a, b) :
     At(a, n) # At(b, n) /\ \A j \in 1..(n - 1) : At(a, j) = At(b, j)}

NumLess(a, b) == \E n \in FirstDiff(a, b) : At(a, n) < At(b, n)

\* The arguments of the k-th call of the caller.
CallA(k) == env0[Schedule[k][1]]

CallB(k) == env0[Schedule[k][2]]

BothVersions == IsVersion(env0.v1) /\ IsVersion(env0.v2)

\* The caller has both statuses: log[1] of (v1, v2), log[2] of (v2, v1).
BothDone == pc = "caller" /\ Len(log) = Len(Schedule)

\* A call has just returned; the counters are those of that call.
Returned == pc = "caller" /\ Len(log) >= 1

----------------------------------------------------------------------------
\* C1: for well-formed a and b, versionLT(a, b) returns 0 exactly when the
\* zero-padded numbers of a are smaller than those of b in field-wise order,
\* most significant field first, and returns 1 in every other case.
C1_FieldwiseOrder ==
  \A k \in 1..Len(log) :
    IsVersion(CallA(k)) /\ IsVersion(CallB(k))
      => log[k] = (IF NumLess(CallA(k), CallB(k)) THEN 0 ELSE 1)

\* 2.100.1 against 2.100.2 and back: smaller, then not smaller.
C1_Witness ==
  /\ BothDone
  /\ env0.v1 = <<"2", ".", "1", "0", "0", ".", "1">>
  /\ env0.v2 = <<"2", ".", "1", "0", "0", ".", "2">>
  /\ log = <<0, 1>>

\* C2: fields compare as integers: when, at the first differing field, a's
\* field has fewer digits and a smaller value than b's, versionLT(a, b) is
\* true and versionLT(b, a) is false.
C2_NumericNotLexical ==
  BothDone /\ BothVersions =>
    \A n \in FirstDiff(env0.v1, env0.v2) :
      ( /\ n <= FieldCount(env0.v1)
        /\ n <= FieldCount(env0.v2)
        /\ Len(FieldText(env0.v1, n)) < Len(FieldText(env0.v2, n))
        /\ At(env0.v1, n) < At(env0.v2, n) )
      => log = <<0, 1>>

\* 2.9 against 2.10, which plain string comparison orders the other way.
C2_Witness ==
  /\ BothDone
  /\ env0.v1 = <<"2", ".", "9">>
  /\ env0.v2 = <<"2", ".", "1", "0">>
  /\ StrLess(env0.v2, env0.v1)
  /\ log = <<0, 1>>

\* C3: when the zero-padded numbers of a and b are equal at every position,
\* versionLT(a, b) and versionLT(b, a) are both false.
C3_EqualBothFalse ==
  BothDone /\ BothVersions /\ FirstDiff(env0.v1, env0.v2) = {}
    => log = <<1, 1>>

\* 2.100 against 2.100.0: different strings, equal versions.
C3_Witness ==
  /\ BothDone
  /\ env0.v1 = <<"2", ".", "1", "0", "0">>
  /\ env0.v2 = <<"2", ".", "1", "0", "0", ".", "0">>
  /\ log = <<1, 1>>

\* C4: with two identical argument strings, well-formed or not, versionLT
\* returns 1 from the string test of line 6: nothing is split, padded or
\* evaluated, and the call never gets past its entry.
C4_IdenticalShortCircuit ==
  /\ pc \in {"decl", "pad", "cmp"} => arg1 # arg2
  /\ Returned /\ arg1 = arg2
       => /\ status = 1
          /\ log[Len(log)] = 1
          /\ nsplit = 0
          /\ neval = 0
          /\ npad = 0
          /\ ncmp = 0

\* 2.a against itself, in both calls.
C4_Witness ==
  /\ BothDone
  /\ env0.v1 = <<"2", ".", "a">>
  /\ env0.v2 = env0.v1
  /\ log = <<1, 1>>
  /\ nsplit = 0

\* C5: for well-formed a and b whose zero-padded numbers differ somewhere,
\* exactly one of versionLT(a, b) and versionLT(b, a) is true.
C5_ExactlyOne ==
  BothDone /\ BothVersions /\ FirstDiff(env0.v1, env0.v2) # {}
    => (log[1] = 0) # (log[2] = 0)

\* Versions with a different number of fields, the longer one the smaller.
C5_Witness ==
  /\ BothDone
  /\ BothVersions
  /\ FieldCount(env0.v1) > FieldCount(env0.v2)
  /\ FirstDiff(env0.v1, env0.v2) # {}
  /\ log = <<0, 1>>

\* The digits of f without its leading zeros.
RECURSIVE StripZeros(_)
StripZeros(f) ==
  IF Len(f) > 1 /\ Head(f) = "0" THEN StripZeros(Tail(f)) ELSE f

\* The n-th number of s read without the leading zeros of its field.
AtStripped(s, n) ==
  IF n <= FieldCount(s) THEN Decimal(StripZeros(FieldText(s, n)), 0) ELSE 0

HasLeadingZero(s) ==
  \E n \in 1..FieldCount(s) : FieldText(s, n) # StripZeros(FieldText(s, n))

StrippedLess(a, b) ==
  \E n \in 1..Width(a, b) :
    /\ AtStripped(a, n) < AtStripped(b, n)
    /\ \A j \in 1..(n - 1) : AtStripped(a, j) = AtStripped(b, j)

\* C6: a field written with leading zeros counts as the same digits without
\* them, in base 10: 2.010 and 2.10 are equal both ways, 2.08 is less than
\* 2.9, and 2.010 is not less than 2.9.
C6_LeadingZerosDecimal ==
  /\ \A k \in 1..Len(log) :
       ( /\ IsVersion(CallA(k))
         /\ IsVersion(CallB(k))
         /\ (HasLeadingZero(CallA(k)) \/ HasLeadingZero(CallB(k))) )
       => log[k] = (IF StrippedLess(CallA(k), CallB(k)) THEN 0 ELSE 1)
  /\ ( /\ BothDone
       /\ env0.v1 = <<"2", ".", "0", "1", "0">>
       /\ env0.v2 = <<"2", ".", "1", "0">> ) => log = <<1, 1>>
  /\ ( /\ Len(log) >= 1
       /\ env0.v1 = <<"2", ".", "0", "8">>
       /\ env0.v2 = <<"2", ".", "9">> ) => log[1] = 0
  /\ ( /\ Len(log) >= 1
       /\ env0.v1 = <<"2", ".", "0", "1", "0">>
       /\ env0.v2 = <<"2", ".", "9">> ) => log[1] = 1

\* 2.010 against 2.9: ten is not less than nine.
C6_Witness ==
  /\ BothDone
  /\ env0.v1 = <<"2", ".", "0", "1", "0">>
  /\ env0.v2 = <<"2", ".", "9">>
  /\ log = <<1, 0>>

\* C7: the result is decided at the leftmost position n where the
\* zero-padded numbers differ: 0 if a's number is the smaller there, 1 if it
\* is the larger, and the call returns in that very iteration of the loop
\* (the n-th), so that no field to the right of n is looked at.
C7_DecidedAtFirstDifference ==
  Returned /\ IsVersion(arg1) /\ IsVersion(arg2) =>
    \A n \in FirstDiff(arg1, arg2) :
      /\ ncmp = n
      /\ status = (IF At(arg1, n) < At(arg2, n) THEN 0 ELSE 1)
      /\ log[Len(log)] = status

\* 2.0.0 against 1.9.9, then 1.9.9 against 2.0.0, decided in the first
\* iteration although the fields to the right order the other way.
C7_Witness ==
  /\ BothDone
  /\ env0.v1 = <<"2", ".", "0", ".", "0">>
  /\ env0.v2 = <<"1", ".", "9", ".", "9">>
  /\ log = <<1, 0>>
  /\ ncmp = 1

\* a has fewer fields than b and the same numbers as b in all of them.
ProperPrefix(a, b) ==
  /\ FieldCount(a) < FieldCount(b)
  /\ \A n \in 1..FieldCount(a) : At(a, n) = At(b, n)

\* C8: missing fields count as zeros on the right: when a has fewer fields
\* than b and agrees with b on all of its own, versionLT(a, b) is true
\* exactly when one of b's extra fields is greater than 0, and
\* versionLT(b, a) is false.
C8_RightPadding ==
  \A k \in 1..Len(log) :
    IsVersion(CallA(k)) /\ IsVersion(CallB(k)) =>
      /\ ProperPrefix(CallA(k), CallB(k)) =>
           (log[k] = 0 <=>
              \E n \in (FieldCount(CallA(k)) + 1)..FieldCount(CallB(k)) :
                At(CallB(k), n) > 0)
      /\ ProperPrefix(CallB(k), CallA(k)) => log[k] = 1

\* 2.9 against 2.9.1 and back.
C8_Witness ==
  /\ BothDone
  /\ env0.v1 = <<"2", ".", "9">>
  /\ env0.v2 = <<"2", ".", "9", ".", "1">>
  /\ log = <<0, 1>>
  /\ npad = 0

\* C9: a call with a non-numeric field does not abort the caller and comes
\* back to it with status 0 or 1.
C9_MalformedStillReturns ==
  [](( /\ pc = "entry"
       /\ (HasNonNumeric(arg1) \/ HasNonNumeric(arg2)) )
     => <>(Returned /\ status \in {0, 1} /\ log[Len(log)] = status))

\* 2.a against 2.1: both comparisons of the second field fail with a
\* diagnostic, and the call returns 1.
C9_Witness ==
  /\ pc = "caller"
  /\ Len(log) = 1
  /\ arg1 = <<"2", ".", "a">>
  /\ arg2 = <<"2", ".", "1">>
  /\ ndiag = 2
  /\ status = 1

\* C10: a call changes none of the caller's variables: IFS, i, ver1, ver2
\* and the two version strings are the same during and after the call as
\* before it, the locals are gone on return, and with well-formed arguments
\* nothing is written to stderr.
C10_NoSideEffects ==
  /\ env = env0
  /\ pc = "caller" => frame = NoFrame
  /\ IsVersion(arg1) /\ IsVersion(arg2) => ndiag = 0

\* A caller that uses IFS, i, ver1 and ver2 itself, after two calls that
\* split, padded and compared.
C10_Witness ==
  /\ BothDone
  /\ env0.i = 7
  /\ env0.ver1 # <<>>
  /\ env0.v1 = <<"2", ".", "1", "0", "0", ".", "0">>
  /\ env0.v2 = <<"2", ".", "1", "0", "0">>
  /\ npad = 1
  /\ ncmp = 3
  /\ env = env0

----------------------------------------------------------------------------
\* Further notions used by the statements below

Max(m, n) == IF m < n THEN n ELSE m

\* The number of words the splitting of s on dots yields: none for the
\* empty string, and a dot at the very end opens no further word.
Words(s) ==
  IF s = <<>> THEN 0
  ELSE Cardinality(DotsIn(s)) + (IF s[Len(s)] = "." THEN 0 ELSE 1)

\* Every field of version s lies in the integer range.
InRange(s) == \A n \in 1..FieldCount(s) : At(s, n) <= MaxInt

\* The numbers of version s, and a sequence of numbers padded with zeros on
\* the right to length n.
Numbers(s) == [n \in 1..FieldCount(s) |-> At(s, n)]

PadRight(q, n) == q \o [k \in 1..(n - Len(q)) |-> 0]

SeqLess(p, q) ==
  \E k \in 1..Len(p) : p[k] < q[k] /\ \A j \in 1..(k - 1) : p[j] = q[j]

\* The comparator that parses both versions, pads both to the same length
\* and only then compares.
NormalizedLess(a, b) ==
  SeqLess(PadRight(Numbers(a), Width(a, b)), PadRight(Numbers(b), Width(a, b)))

\* C12: every call terminates; the comparison loop runs at most
\* max(fields(a), fields(b)) times and the padding loop at most
\* fields(b) - fields(a) times (not at all when a has the more fields).
C12_TerminatesWithinBounds ==
  /\ [](/\ ncmp <= Max(Words(arg1), Words(arg2))
        /\ npad <= Max(0, Words(arg2) - Words(arg1)))
  /\ [](pc = "entry" => <>Returned)

\* 2.100 against 2.100.0: one padding iteration, three comparisons.
C12_Witness ==
  /\ Returned
  /\ arg1 = <<"2", ".", "1", "0", "0">>
  /\ arg2 = <<"2", ".", "1", "0", "0", ".", "0">>
  /\ npad = Words(arg2) - Words(arg1)
  /\ npad = 1
  /\ ncmp = Words(arg2)

\* C13: for well-formed versions whose fields all lie in 0 .. MaxInt, the
\* largest integer included, every field is parsed to its true value with no
\* wrap-around and the result is the true numeric field-wise order.
C13_NoOverflowInRange ==
  \A k \in 1..Len(log) :
    ( /\ IsVersion(CallA(k)) /\ InRange(CallA(k))
      /\ IsVersion(CallB(k)) /\ InRange(CallB(k)) )
    => /\ \A n \in 1..FieldCount(CallA(k)) :
            /\ Const(FieldText(CallA(k), n), shell).ok
            /\ Const(FieldText(CallA(k), n), shell).val = At(CallA(k), n)
       /\ \A n \in 1..FieldCount(CallB(k)) :
            /\ Const(FieldText(CallB(k), n), shell).ok
            /\ Const(FieldText(CallB(k), n), shell).val = At(CallB(k), n)
       /\ (log[k] = 0) = NumLess(CallA(k), CallB(k))

\* The largest integer against the one below it, and back.
C13_Witness ==
  /\ BothDone
  /\ env0.v1 = ToDigits(MaxInt)
  /\ env0.v2 = ToDigits(MaxInt - 1)
  /\ At(env0.v1, 1) = MaxInt
  /\ log = <<1, 0>>

\* C14 as stated: the empty string is split into one empty field.
C14_EmptyIsOneField ==
  pc = "pad" /\ npad = 0 =>
    /\ arg1 = <<>> => Len(frame.ver1) = 1
    /\ arg2 = <<>> => Len(frame.ver2) = 1

\* C14, amended: the empty string is split into no field at all (an array
\* of length 0), before padding and comparison.
C14_EmptyIsNoField ==
  pc = "pad" /\ npad = 0 =>
    /\ arg1 = <<>> => Len(frame.ver1) = 0
    /\ arg2 = <<>> => Len(frame.ver2) = 0

\* The empty string against 1, just split.
C14_Witness ==
  /\ pc = "pad"
  /\ npad = 0
  /\ arg1 = <<>>
  /\ arg2 = <<"1">>
  /\ Len(frame.ver1) = 0
  /\ Len(frame.ver2) = 1

\* C15: the answer is the exit status and nothing else: with well-formed
\* arguments the call returns 0 exactly when the first version is the
\* smaller, 1 when it is equal or greater, never another status, and it
\* prints nothing and sets no variable of the caller.
C15_StatusOnly ==
  Returned /\ IsVersion(arg1) /\ IsVersion(arg2) =>
    /\ status \in {0, 1}
    /\ log[Len(log)] = status
    /\ status = 0 <=> NumLess(arg1, arg2)
    /\ status = 1 <=> (FirstDiff(arg1, arg2) = {} \/ NumLess(arg2, arg1))
    /\ ndiag = 0
    /\ env = env0

\* 2.200 against 2.190 (greater) after 2.190 against 2.200 (smaller).
C15_Witness ==
  /\ BothDone
  /\ arg1 = <<"2", ".", "2", "0", "0">>
  /\ arg2 = <<"2", ".", "1", "9", "0">>
  /\ log = <<0, 1>>
  /\ status = 1

\* ${ver2[k]} as the comparison of position k reads it: 0 when unset or empty.
Ver2At(k) == IF ArrayGet(frame.ver2, k) = <<>> THEN <<"0">> ELSE ArrayGet(frame.ver2, k)

\* C17: padding ver1 before the loop and ver2 inside it gives what padding
\* both parsed sequences first gives: throughout the comparison loop the two
\* arrays hold, position by position, the numbers of the two normalized
\* sequences, and the status returned is that of the normalizing comparator.
C17_PaddingRefinesNormalized ==
  IsVersion(arg1) /\ IsVersion(arg2) =>
    /\ pc = "cmp" =>
         /\ Len(frame.ver1) = Width(arg1, arg2)
         /\ \A k \in 0..(Len(frame.ver1) - 1) :
              /\ Const(ArrayGet(frame.ver1, k), shell).val
                   = PadRight(Numbers(arg1), Width(arg1, arg2))[k + 1]
              /\ Const(Ver2At(k), shell).val
                   = PadRight(Numbers(arg2), Width(arg1, arg2))[k + 1]
    /\ Returned => (status = 0) = NormalizedLess(arg1, arg2)

\* 2.9 against 2.9.1: ver1 was padded before the loop; and back, where
\* ver2 is padded inside the loop.
C17_Witness ==
  /\ BothDone
  /\ env0.v1 = <<"2", ".", "9">>
  /\ env0.v2 = <<"2", ".", "9", ".", "1">>
  /\ log = <<0, 1>>
  /\ ncmp = 3

\* C18: after the padding loop ver1 has max(fields(a), fields(b)) elements;
\* the comparison loop visits the indices 0, 1, 2, ... in this order, and it
\* ends without an early return only after the last of them.
C18_LoopCoversLongerVersion ==
  /\ [](pc = "cmp" =>
          /\ Len(frame.ver1) = Max(Words(arg1), Words(arg2))
          /\ frame.i = ncmp
          /\ frame.i <= Len(frame.ver1))
  /\ [][CmpExit => ncmp = Max(Words(arg1), Words(arg2))]_vars

\* 2.100.0 against 2.100 after 2.100 against 2.100.0: three indices each.
C18_Witness ==
  /\ BothDone
  /\ env0.v1 = <<"2", ".", "1", "0", "0">>
  /\ env0.v2 = <<"2", ".", "1", "0", "0", ".", "0">>
  /\ ncmp = 3
  /\ npad = 0
  /\ log = <<1, 1>>

----------------------------------------------------------------------------
\* C20: versionLT is transitive on well-formed inputs: whenever
\* versionLT a b and versionLT b c both return 0 (true), versionLT a c
\* returns 0 too, also when a, b and c have different numbers of fields.
C20_Transitive ==
  (Len(tres) = Len(TriSchedule) /\ IsVersion(tri.a) /\ IsVersion(tri.b)
     /\ IsVersion(tri.c))
    => ((tres[1] = 0 /\ tres[2] = 0) => tres[3] = 0)

\* a < b < c with one, two and three fields.
C20_Witness ==
  /\ Len(tres) = Len(TriSchedule)
  /\ tres = <<0, 0, 0>>
  /\ IsVersion(tri.a) /\ IsVersion(tri.b) /\ IsVersion(tri.c)
  /\ Cardinality({FieldCount(tri.a), FieldCount(tri.b), FieldCount(tri.c)}) = 3

----------------------------------------------------------------------------
\* C11: calls of versionLT that run interleaved in any order each return
\* the status they return when run alone, and the variables they share are
\* never written.
C11_InterleavingHarmless ==
  /\ cenv = cin.env
  /\ \A p \in DOMAIN procs :
       Ended(procs[p]) =>
         /\ procs[p].pc = "done"
         /\ procs[p].status
              = versionLT(cin.args[p].a, cin.args[p].b, cin.env, shell)

\* Two calls that overlapped have both ended, one true and one false.
C11_Witness ==
  /\ procs # <<>>
  /\ cin.mixed
  /\ \A p \in DOMAIN procs : Ended(procs[p])
  /\ \E p, q \in DOMAIN procs : procs[p].status = 0 /\ procs[q].status = 1

----------------------------------------------------------------------------
\* The vectors run so far whose status is not the expected one.
Failing == {k \in 1..Len(tact) : tact[k] # texp[k]}

\* The texts printed so far.
Texts == {tout[k].text : k \in 1..Len(tout)}

\* C19: the test script runs its vectors in the listed order; the line of a
\* vector says PASS exactly when the status of versionLT equals the
\* expected status; the script exits with status 1 at the first failing
\* vector and runs no later one; "All tests passed!" is printed only when
\* all five vectors passed.
C19_TestScript ==
  /\ \A k \in 1..Len(tact) :
       /\ tout[k + 1].v1 = TestVectors[k][1]
       /\ tout[k + 1].v2 = TestVectors[k][2]
       /\ tact[k] = versionLT(TestVectors[k][1], TestVectors[k][2],
                              DefaultEnv, shell)
       /\ tout[k + 1].text \in {"PASS", "FAIL"}
       /\ tout[k + 1].text = "PASS" <=> tact[k] = texp[k]
  /\ Failing # {} <=> tpc = "failed"
  /\ tpc = "failed" => (texit = 1 /\ Failing = {Len(tact)}
                         /\ Len(tout) = Len(tact) + 1)
  /\ "All tests passed!" \in Texts =>
       (Len(tact) = Len(TestVectors) /\ Failing = {} /\ tpc = "passed"
          /\ texit = 0)

\* The first two vectors passed with the statuses the script expects; the
\* third, given the other status, failed and ended the script.
C19_Witness ==
  /\ tpc = "failed"
  /\ texp[1] = Expected[1] /\ texp[2] = Expected[2] /\ texp[3] # Expected[3]
  /\ texit = 1
  /\ Len(tact) = 3
  /\ tout[Len(tout)].text = "FAIL"
  /\ tout[2].text = "PASS" /\ tout[3].text = "PASS"

----------------------------------------------------------------------------
\* The pastes with a finite expiration.
Finite == {p \in pstore : ~p.never}

----------------------------------------------------------------------------
\* Values a caller may have left in IFS.
CallerIFS ==
  { <<" ", "\t", "\n">>, <<":">>, <<".">>, <<"1">>, <<>> }

\* Callers with any of these values of IFS.
AnyCaller == {[c EXCEPT !.IFS = f] : c \in CallerVars, f \in CallerIFS}

\* C21: the status of versionLT a b depends on a and b only: the status the
\* caller has just got, from its first call or from a later one, is the
\* status of the same call made first by any caller, whatever its IFS.
C21_DependsOnArgumentsOnly ==
  Returned =>
    \A g \in AnyCaller :
      status = versionLT(CallA(Len(log)), CallB(Len(log)), g, shell)

\* Both calls of a caller whose IFS is a colon have returned, the first
\* true.
C21_Witness ==
  /\ BothDone
  /\ env0.IFS = <<":">>
  /\ log = <<0, 1>>
  /\ FieldCount(env0.v1) > 1

----------------------------------------------------------------------------
\* The version with an empty interior field, and the same with a 0 there.
EmptyInterior == <<"2", ".", ".", "1">>

ZeroInterior == <<"2", ".", "0", ".", "1">>

\* C22: an empty interior field counts as 0 on either side: for every
\* well-formed x, versionLT 2..1 x returns what versionLT 2.0.1 x returns,
\* and versionLT x 2..1 returns what versionLT x 2.0.1 returns.
C22_EmptyFieldIsZeroBothSides ==
  /\ (Returned /\ arg1 = EmptyInterior /\ IsVersion(arg2)) =>
       status = versionLT(ZeroInterior, arg2, env0, shell)
  /\ (Returned /\ arg2 = EmptyInterior /\ IsVersion(arg1)) =>
       status = versionLT(arg1, ZeroInterior, env0, shell)

----------------------------------------------------------------------------
\* The length of an ObjectId in hexadecimal digits.
ObjectIdLen == 24

HexDigits == Digits \cup {"a", "b", "c", "d", "e", "f"}

IsObjectId(x) ==
  Len(x) = ObjectIdLen /\ \A k \in 1..Len(x) : x[k] \in HexDigits

\* C28: decryptObjectId(encryptObjectId(id)) = id for every ObjectId of 24
\* hexadecimal digits; the encrypted id holds none of + / =, and the reverse
\* substitution with the re-padding gives back the base64 text it was made
\* from; decryptObjectId never throws, and returns null for an input that
\* does not decrypt.
C28_RoundTrip ==
  /\ (cx # <<>> /\ cx.pc # "start" /\ cx.kind = "id"
       /\ IsObjectId(cx.input.value)) =>
       /\ \A k \in 1..Len(cx.enc) : cx.enc[k] \notin {"+", "/", "="}
       /\ Repad(FromUrlSafe(cx.enc))
            = Base64Encode(Cipher(Utf8(cx.input.value)))
       /\ cx.pc = "decrypted" => cx.dec = Returns(cx.input)
  /\ (cx # <<>> /\ cx.pc = "decrypted") =>
       /\ ~cx.dec.threw
       /\ (cx.kind = "token" /\ DecryptBody(cx.input).threw) => cx.dec.null

\* An id whose base64 text holds +, / and = has been encrypted and
\* decrypted.
C28_Witness ==
  /\ cx # <<>>
  /\ cx.kind = "id"
  /\ cx.pc = "decrypted"
  /\ cx.dec.value = cx.input.value
  /\ \E k \in 1..Len(cx.enc) : cx.enc[k] = "-"
  /\ \E k \in 1..Len(cx.enc) : cx.enc[k] = "_"
  /\ Len(cx.enc) % 4 # 0

----------------------------------------------------------------------------
\* C23: a request for a paste never answers with a paste whose
\* paste_expiration lies before the time of the request, whether or not the
\* cleanup has deleted it yet.
C23_ExpiredNeverServed ==
  [][GetPaste =>
       (presp'.status = 200 =>
          (presp'.paste.never \/ presp'.paste.paste_expiration >= pnow))]_vars

----------------------------------------------------------------------------
\* What a run of deleteExpiredPastes has to remove.
Due == {p \in pstore : ~p.never /\ p.paste_expiration < pnow}

\* C24: a run of deleteExpiredPastes removes exactly the pastes whose
\* paste_expiration is less than the current time and returns their number
\* as count; the other pastes, those that never expire among them, stay as
\* they are, and after the run no paste with an expiration below that time
\* is left.
C24_CleanupFrame ==
  [][(DevCleanup \/ GetCleanup) =>
       /\ pstore' = pstore \ Due
       /\ plast'.ok /\ plast'.count = Cardinality(Due)
       /\ \A p \in pstore : p.never => p \in pstore'
       /\ \A p \in pstore' : p.never \/ p.paste_expiration >= pnow
       /\ UNCHANGED <<pnow, pnext, pmode>>]_vars

\* A run has removed one paste and left another, which never expires.
C24_Witness ==
  /\ plast.ok
  /\ plast.count = 1
  /\ pnext = 2
  /\ \E p \in pstore : p.never

----------------------------------------------------------------------------
\* C25: once the expiresAt of a share has passed, a request for its content
\* never answers with the content: the first such request answers 410 and
\* removes the token from shares, every later one answers 404; a token that
\* was never created always answers 404.
C25_ExpiredShareGone ==
  [][GetContent =>
       LET t == sv'.resp.token
           due == t \in DOMAIN sv.shares
                    /\ sv.shares[t].expiresAt.valid
                    /\ sv.shares[t].expiresAt.time < sv.now
       IN  /\ due => (sv'.resp.status = 410 /\ t \notin DOMAIN sv'.shares)
           /\ t \in sv.expired => sv'.resp.status = 404
           /\ t \notin 1..sv.made => sv'.resp.status = 404
           /\ sv'.resp.status = 200 => (t \in DOMAIN sv.shares /\ ~due)]_vars

\* A token that was answered 410 earlier has just been answered 404.
C25_Witness ==
  /\ sv # <<>>
  /\ sv.resp.route = "content"
  /\ sv.resp.status = 404
  /\ sv.resp.token \in sv.expired

----------------------------------------------------------------------------
\* C26: a POST /api/share that is rejected, with 401 (no session) or 400
\* (no repo, or a repo without a slash), leaves shares as it is; one that is
\* accepted adds exactly one entry, owned by the requesting user, and changes
\* no other entry.
C26_ShareFrame ==
  [][PostShare =>
       /\ sv'.resp.status = 401 <=> sv'.resp.by = "none"
       /\ sv'.resp.status \in {400, 401} => sv'.shares = sv.shares
       /\ sv'.resp.status = 200 =>
            /\ Cardinality(DOMAIN sv'.shares \ DOMAIN sv.shares) = 1
            /\ \A t \in DOMAIN sv.shares :
                 t \in DOMAIN sv'.shares /\ sv'.shares[t] = sv.shares[t]
            /\ sv'.shares[sv'.resp.token].owner = sv'.resp.by
            /\ sv'.resp.by \in Users
            /\ \E k \in 1..Len(sv'.shares[sv'.resp.token].repo) :
                 sv'.shares[sv'.resp.token].repo[k] = "/"]_vars

\* A second share has been accepted, from another user than the first.
C26_Witness ==
  /\ sv # <<>>
  /\ sv.resp.route = "share"
  /\ sv.resp.status = 200
  /\ sv.made = 2
  /\ DOMAIN sv.shares = {1, 2}
  /\ sv.shares[1].owner # sv.shares[2].owner

----------------------------------------------------------------------------
\* The parts of C27 that do not depend on what generateHaiku returns:
\* generateLine terminates, every retry has a smaller counter, a line takes
\* at most 3 attempts, and at 0 the fallback for the syllable count is
\* returned.
RetriesDecrease ==
  [][(hk # <<>> /\ hk.pc = "generateLine" /\ hk'.pc = "generateLine"
        /\ hk'.index = hk.index) => hk'.retries < hk.retries]_vars

AtMostThreeAttempts ==
  [](hk # <<>> => (hk.retries >= 0 /\ hk.calls - 1 <= 3
                   /\ (hk.pc = "generateLine" /\ hk.retries # 0
                         => hk.calls <= 3)))

FallbackAtZero ==
  [][(hk # <<>> /\ hk.pc = "generateLine" /\ hk.retries = 0) =>
       /\ hk'.lines = Append(hk.lines,
             IF hk.syllableCount = 5
             THEN [kind |-> "fallback", text |-> "Code runs smoothly now,",
                   syllables |-> 5]
             ELSE [kind |-> "fallback",
                   text |-> "Functions work in silent peace.",
                   syllables |-> 7])]_vars

HaikuReturns == <>(hk # <<>> /\ hk.pc = "returned")

ThreeLines ==
  /\ Len(hk.result) = 3
  /\ hk.result[1].syllables = 5
  /\ hk.result[2].syllables = 7
  /\ hk.result[3].syllables = 5

\* C27 as stated: generateLine always terminates, every retry decreases
\* retries, at most 3 attempts are made for a line, the fallback line of the
\* syllable count is returned at 0, and generateHaiku always returns three
\* lines of 5, 7 and 5 syllables, each a validated generated line or the
\* fallback line.
C27_GeneratedOrFallback ==
  /\ RetriesDecrease
  /\ AtMostThreeAttempts
  /\ FallbackAtZero
  /\ HaikuReturns
  /\ []((hk # <<>> /\ hk.pc = "returned") =>
         /\ ThreeLines
         /\ \A k \in 1..3 : hk.result[k].kind \in {"generated", "fallback"})

\* C27 amended: the same, but the three lines returned are either each a
\* validated generated line or the fallback line, or together the fixed
\* haiku of the catch block.
C27_GeneratedFallbackOrCatch ==
  /\ RetriesDecrease
  /\ AtMostThreeAttempts
  /\ FallbackAtZero
  /\ HaikuReturns
  /\ []((hk # <<>> /\ hk.pc = "returned") =>
         /\ ThreeLines
         /\ \/ \A k \in 1..3 : hk.result[k].kind \in {"generated", "fallback"}
            \/ /\ hk.result[1].text = "Code flows like a stream,"
               /\ hk.result[2].text = "Functions dance in silent loops,"
               /\ hk.result[3].text = "Debug brings the dawn.")

\* A haiku has been returned whose second line is the fallback, reached
\* after three attempts, between two generated lines.
C27_Witness ==
  /\ hk # <<>>
  /\ hk.pc = "returned"
  /\ Len(hk.result) = 3
  /\ hk.result[1].kind = "generated"
  /\ hk.result[2].kind = "fallback"
  /\ hk.result[3].kind = "generated"

====
